---- MODULE Spec2Model ----
(***************************************************************************)
(* AgenticVisionForge: the run lifecycle controller (app.py), the CLI      *)
(* entry (main.py), the run orchestrator (src/orchestrator.py), the        *)
(* provider gateway (src/ollama_text_utils.py, src/evaluation.py).         *)
(*                                                                         *)
(* One run directory is modelled.  Python values carry their type in a     *)
(* "kind" field, because the orchestrator applies str methods (.strip(),   *)
(* .lower()) to what the gateway returns and the gateway of this           *)
(* repository returns dicts: applying a str method to a dict raises        *)
(* AttributeError, and the model raises it too.                            *)
(*                                                                         *)
(* Text is a sequence of atoms (chunks of characters, " " and "\n"         *)
(* included); `x in y` on strings is contiguous-subsequence containment.   *)
(*                                                                         *)
(* Two bindings of the orchestrator's collaborators are modelled:          *)
(*   "repo"    the functions orchestrator.py imports (dict-returning);     *)
(*   "double"  text-returning collaborators with the call shapes the       *)
(*             orchestrator's own code uses (TextDouble, VisionDouble,     *)
(*             RefineDouble), under which the iteration loop is            *)
(*             reachable.                                                  *)
(* Spec is the program as composed (binding "repo", web entry).            *)
(* SpecLoop is run_iterations started by main.py under binding "double".   *)
(***************************************************************************)
EXTENDS Integers, Sequences, FiniteSets, TLC

\* ---------------------------------------------------------------- bounds
MaxWorkers == 2      \* number of start_run calls that may spawn a thread
MaxIters == 4        \* largest configured iterations.max_iterations
MaxLen == 3          \* longest text (in atoms) drawn for the pure-function checks
MaxNodes == 4        \* largest number of nodes of a workflow template

\* ---------------------------------------------------------------- values
NoFile == [kind |-> "nofile"]
PyNone == [kind |-> "none"]
PyStr(t) == [kind |-> "str", val |-> t]
Exchange(sys, usr, resp) ==
    [kind |-> "dict", system_prompt |-> sys, user_prompt |-> usr, response |-> resp]

Workers == 1..MaxWorkers
Providers == {"ollama", "gemini", "other"}
Goals == {<<"lighthouse">>, <<"castle">>}

\* ---------------------------------------------------------------- text
LowerAtom(a) ==
    CASE a = "Perfectly" -> "perfectly"
      [] a = "NEEDS" -> "needs"
      [] a = "Castle" -> "castle"
      [] a = "Random" -> "random"
      [] OTHER -> a

Lower(t) == [i \in 1..Len(t) |-> LowerAtom(t[i])]

\* Python `p in t` for strings
Contains(t, p) ==
    \E i \in 0..(Len(t) - Len(p)) : SubSeq(t, i + 1, i + Len(p)) = p

IsSpace(a) == a \in {" ", "\n"}

RECURSIVE LStrip(_)
LStrip(t) == IF t # <<>> /\ IsSpace(Head(t)) THEN LStrip(Tail(t)) ELSE t

RECURSIVE RStrip(_)
RStrip(t) ==
    IF t # <<>> /\ IsSpace(t[Len(t)]) THEN RStrip(SubSeq(t, 1, Len(t) - 1)) ELSE t

\* str.strip()
Strip(t) == RStrip(LStrip(t))

\* str.split('\n'): a sequence of lines, never empty
RECURSIVE SplitLines(_)
SplitLines(t) ==
    IF \A i \in 1..Len(t) : t[i] # "\n" THEN <<t>>
    ELSE LET k == CHOOSE i \in 1..Len(t) : t[i] = "\n" /\ \A j \in 1..(i - 1) : t[j] # "\n"
         IN <<SubSeq(t, 1, k - 1)>> \o SplitLines(SubSeq(t, k + 1, Len(t)))

\* '\n'.join(lines)
RECURSIVE JoinLines(_)
JoinLines(ls) ==
    IF ls = <<>> THEN <<>>
    ELSE IF Len(ls) = 1 THEN ls[1]
    ELSE ls[1] \o <<"\n">> \o JoinLines(Tail(ls))

ErrorText(e) == <<"Error:", " ", e>>
HasErrorMarker(t) == Contains(t, <<"Error:">>)

\* ollama_text_utils.extract_prompt_tags, lines 29-35:
\* re.search(r'<prompt>(.*?)</prompt>', text, re.DOTALL), the stripped group
\* or None
extract_prompt_tags(text) ==
    LET opens == {i \in 1..Len(text) : text[i] = "<prompt>"}
        closes(i) == {j \in (i + 1)..Len(text) : text[j] = "</prompt>"}
    IN IF \E i \in opens : closes(i) # {}
       THEN LET i == CHOOSE k \in opens : \A m \in opens : k <= m
                j == CHOOSE k \in closes(i) : \A m \in closes(i) : k <= m
            IN PyStr(Strip(SubSeq(text, i + 1, j - 1)))
       ELSE PyNone

\* ---------------------------------------------------------------- provider gateway
\* what a backend does with one request: it answers with a text, or the
\* transport fails with an exception
BackendErrors == {"ConnectionError", "HTTPError"}
TextResponses ==
    { <<"warm", " ", "light", "\n", "a", " ", "lighthouse">>,
      <<"\n", "a", " ", "castle", " ">>,
      <<"plan", " ", "<prompt>", " ", "a", " ", "castle", "</prompt>">>,
      <<>> }
BackendOutcomes ==
    [ok : {TRUE}, text : TextResponses] \cup [ok : {FALSE}, error : BackendErrors]

\* `system or ""`
SystemOr(system) == IF system.kind = "str" THEN system.val ELSE <<>>

generate_text_ollama(prompt, system, out) ==
    IF out.ok THEN Exchange(SystemOr(system), prompt, out.text)
    ELSE Exchange(SystemOr(system), prompt, ErrorText(out.error))

generate_text_gemini(prompt, system, out) ==
    IF out.ok THEN Exchange(SystemOr(system), prompt, out.text)
    ELSE Exchange(SystemOr(system), prompt, ErrorText(out.error))

\* a text-returning gateway: the response text, "" when the call failed
TextDouble(prompt, out) == PyStr(IF out.ok THEN out.text ELSE <<>>)

\* config["prompts"]["goal_understanding"].format(goal=goal)
GoalPrompt(goal) == <<"Understand", " ", "the", " ", "goal:", " ">> \o goal

\* orchestrator.understand_goal, lines 16-25: [exc, response]
understand_goal_call(binding, provider, goal, out) ==
    IF provider = "ollama" THEN
        [exc |-> "none",
         response |-> IF binding = "repo"
                      THEN generate_text_ollama(GoalPrompt(goal), PyNone, out)
                      ELSE TextDouble(GoalPrompt(goal), out)]
    ELSE IF provider = "gemini" THEN
        [exc |-> "none",
         response |-> IF binding = "repo"
                      THEN generate_text_gemini(GoalPrompt(goal), PyNone, out)
                      ELSE TextDouble(GoalPrompt(goal), out)]
    ELSE [exc |-> "ValueError", response |-> PyNone]

\* orchestrator.understand_goal, lines 27-32: [exc, analysis, initial_prompt]
understand_goal_extract(response) ==
    IF response.kind # "str"
    THEN [exc |-> "AttributeError", analysis |-> <<>>, initial_prompt |-> <<>>]
    ELSE LET lines == SplitLines(Strip(response.val))
         IN [exc |-> "none",
             analysis |-> JoinLines(SubSeq(lines, 1, Len(lines) - 1)),
             initial_prompt |-> lines[Len(lines)]]

\* ---------------------------------------------------------------- vision gateway
Stages == {"describe", "analyze"}

\* the system message and the prompt analyze_image_* build for a stage
\* (evaluation.py 15-34 and 74-93); config.get('current_goal', ''),
\* config.get('image_description', '')
VisionSystem(stage) ==
    IF stage = "describe" THEN <<"art", " ", "critic:", " ", "describe">>
    ELSE <<"quality", " ", "assurance:", " ", "compare">>
VisionPrompt(stage, current_goal, image_description) ==
    IF stage = "describe" THEN <<"Provide", " ", "a", " ", "description">>
    ELSE <<"Goal:", " ">> \o current_goal \o <<"\n", "Previous", " ", "Description:", " ">>
         \o image_description

\* what a vision call meets: the image file is readable or not, and the
\* backend answers or fails
VisionOutcomes ==
    [readable : BOOLEAN, ok : {TRUE}, text : TextResponses]
    \cup [readable : BOOLEAN, ok : {FALSE}, error : BackendErrors]

Returned(v) == [exc |-> "none", value |-> v]
Raised(e) == [exc |-> e, value |-> PyNone]

\* evaluation.py 9-61: the image is read before the try block
analyze_image_ollama(stage, current_goal, image_description, out) ==
    IF ~out.readable THEN Raised("FileNotFoundError")
    ELSE IF out.ok
    THEN Returned(Exchange(VisionSystem(stage),
                           VisionPrompt(stage, current_goal, image_description), out.text))
    ELSE Returned(Exchange(VisionSystem(stage),
                           VisionPrompt(stage, current_goal, image_description),
                           ErrorText(out.error)))

GeminiFallbackSystem == <<"Gemini", " ", "system", " ", "message", " ", "(error fallback)">>
GeminiFallbackUser == <<"Gemini", " ", "user", " ", "prompt", " ", "(error fallback)">>

\* evaluation.py 63-112: everything is inside the try block; the except
\* branch records fixed fallback strings
analyze_image_gemini(stage, current_goal, image_description, out) ==
    IF ~out.readable
    THEN Returned(Exchange(GeminiFallbackSystem, GeminiFallbackUser,
                           ErrorText("FileNotFoundError")))
    ELSE IF out.ok
    THEN Returned(Exchange(VisionSystem(stage),
                           VisionPrompt(stage, current_goal, image_description), out.text))
    ELSE Returned(Exchange(GeminiFallbackSystem, GeminiFallbackUser, ErrorText(out.error)))

\* evaluation.py 114-126
analyze_image(provider, stage, current_goal, image_description, out) ==
    IF provider = "ollama"
    THEN analyze_image_ollama(stage, current_goal, image_description, out)
    ELSE IF provider = "gemini"
    THEN analyze_image_gemini(stage, current_goal, image_description, out)
    ELSE Raised("ValueError")

\* the critiques a text-returning vision collaborator answers with
LoopCritiques ==
    { <<"needs", " ", "adjustment", ":", " ", "sky", " ", "color">>,
      <<"perfectly", " ", "match", "es", " ", "the", " ", "goal">>,
      <<"a", " ", "clearer", " ", "sky">> }

VisionDoubleOutcomes ==
    [ok : {TRUE}, text : LoopCritiques] \cup [ok : {FALSE}, error : {"ValueError"}]

\* a text-returning vision collaborator: the critique text, or it raises
VisionDouble(out) == IF out.ok THEN Returned(PyStr(out.text)) ELSE Raised(out.error)

\* the prompt the refinement of iteration n answers with: a new text each time
RefinedPrompt(n) == <<"a", " ", "lighthouse", " ", "take", " ", ToString(n)>>
RefineDoubleOutcomes(n) ==
    [ok : {TRUE}, text : {RefinedPrompt(n)}] \cup [ok : {FALSE}, error : {"ValueError"}]

\* a refinement collaborator accepting the orchestrator's call
\* refine_prompt(current_prompt, analysis, config, iteration=, previous_iterations=):
\* the refined prompt, or it raises
RefineDouble(out) == IF out.ok THEN Returned(PyStr(out.text)) ELSE Raised(out.error)

\* ollama_text_utils.refine_prompt(original_prompt, goal, image_description,
\* alignment_analysis, config) called as at orchestrator.py 252-258: the
\* keyword arguments are not parameters of it
refine_prompt(out) == Raised("TypeError")

\* ---------------------------------------------------------------- convergence evaluator
\* truth value of a Python object: None and "" are false
Truthy(v) == \/ v.kind = "dict"
             \/ v.kind = "str" /\ v.val # <<>>

\* set(text.lower().split())
WordSet(t) == {Lower(t)[i] : i \in {j \in 1..Len(t) : ~IsSpace(t[j])}}

\* lines 85-103: [exc, tag, added, removed]
analyze_prompt_differences(prev_prompt, curr_prompt) ==
    IF ~Truthy(prev_prompt)
    THEN [exc |-> "none", tag |-> "Initial prompt exploration", added |-> {}, removed |-> {}]
    ELSE IF prev_prompt.kind # "str" \/ curr_prompt.kind # "str"
    THEN [exc |-> "AttributeError", tag |-> "", added |-> {}, removed |-> {}]
    ELSE LET added == WordSet(curr_prompt.val) \ WordSet(prev_prompt.val)
             removed == WordSet(prev_prompt.val) \ WordSet(curr_prompt.val)
         IN [exc |-> "none",
             tag |-> IF added = {} /\ removed = {}
                     THEN "Refined existing elements" ELSE "changes",
             added |-> added, removed |-> removed]

better_phrases == {"better", "improved", "enhanced", "stronger", "clearer"}
worse_phrases == {"less", "weaker", "reduced", "lost", "missing"}

\* lines 105-133: [exc, tag, improvements, regressions]
compare_analyses(prev_analysis, curr_analysis) ==
    IF ~Truthy(prev_analysis)
    THEN [exc |-> "none", tag |-> "Initial image assessment",
          improvements |-> {}, regressions |-> {}]
    ELSE IF curr_analysis.kind # "str"
    THEN [exc |-> "AttributeError", tag |-> "", improvements |-> {}, regressions |-> {}]
    ELSE LET improvements == {p \in better_phrases : Contains(Lower(curr_analysis.val), <<p>>)}
             regressions == {p \in worse_phrases : Contains(Lower(curr_analysis.val), <<p>>)}
         IN [exc |-> "none",
             tag |-> IF improvements # {} /\ regressions = {} THEN "Improvements noted"
                     ELSE IF regressions # {} /\ improvements = {} THEN "Regressions noted"
                     ELSE IF improvements # {} /\ regressions # {} THEN "Mixed results"
                     ELSE "Subtle changes",
             improvements |-> improvements, regressions |-> regressions]

issue_phrases ==
    {<<"missing">>, <<"lacks">>, <<"needs">>, <<"could", " ", "use">>, <<"should", " ", "have">>}

\* number of the analyses whose lower-cased text contains the phrase
PhraseCount(analyses, phrase) ==
    Cardinality({i \in 1..Len(analyses) : Contains(Lower(analyses[i].val), phrase)})

\* lines 135-173: [exc, tag, consistent_issues, recurring_improvements, prompt_evolution]
synthesize_learning(prev_analyses, curr_analysis, prev_prompt, curr_prompt) ==
    LET none == [exc |-> "none", tag |-> "Insufficient data for synthesis",
                 consistent_issues |-> {}, recurring_improvements |-> {},
                 prompt_evolution |-> ""]
        evo == analyze_prompt_differences(prev_prompt, curr_prompt)
        all == prev_analyses \o <<curr_analysis>>
    IN IF Len(prev_analyses) < 2 THEN none
       ELSE IF evo.exc # "none" THEN [none EXCEPT !.exc = evo.exc, !.tag = ""]
       ELSE IF \E i \in 1..Len(all) : all[i].kind # "str"
       THEN [none EXCEPT !.exc = "AttributeError", !.tag = ""]
       ELSE [exc |-> "none", tag |-> "synthesis",
             consistent_issues |-> {p \in issue_phrases : PhraseCount(all, p) >= 2},
             recurring_improvements |->
                 {p \in better_phrases : PhraseCount(all, <<p>>) >= 2},
             prompt_evolution |-> evo.tag]

success_phrases ==
    { <<"perfectly", " ", "match", "es">>, <<"excellent", " ", "match">>,
      <<"captures", " ", "all", " ", "elements">>, <<"achieves", " ", "the", " ", "goal">>,
      <<"outstanding", " ", "representation">> }
improvement_phrases ==
    { <<"could", " ", "be", " ", "improved">>, <<"needs", " ", "adjustment">>,
      <<"would", " ", "benefit", " ", "from">>, <<"consider", " ", "adding">>,
      <<"should", " ", "include">> }

Decision(exc, cont, reason) == [exc |-> exc, should_continue |-> cont, reason |-> reason]

\* the evaluation after the third iteration with its two tests in the other order
comprehensive_evaluation_improvement_first(analysis) ==
    IF analysis.kind # "str" THEN Decision("AttributeError", FALSE, "")
    ELSE IF \E p \in improvement_phrases : Contains(Lower(analysis.val), p)
    THEN Decision("none", TRUE, "Continuing iterations")
    ELSE Decision("none", FALSE, "No substantial improvements needed")

\* lines 61-83, the evaluation after the third iteration
comprehensive_evaluation(analysis) ==
    IF analysis.kind # "str" THEN Decision("AttributeError", FALSE, "")
    ELSE IF \E p \in success_phrases : Contains(Lower(analysis.val), p)
    THEN Decision("none", FALSE, "Analysis indicates perfect match")
    ELSE IF ~\E p \in improvement_phrases : Contains(Lower(analysis.val), p)
    THEN Decision("none", FALSE, "No substantial improvements needed")
    ELSE Decision("none", TRUE, "Continuing iterations")

\* evaluate_quality with the branches of iteration 2 and 3 missing
evaluate_quality_baseline_only(analysis, current_prompt, previous_prompt, iteration, previous_analyses) ==
    IF iteration = 1 THEN Decision("none", TRUE, "Initial iteration establishing baseline")
    ELSE comprehensive_evaluation(analysis)

\* evaluate_quality whose warm-up ends one iteration early
evaluate_quality_short_warmup(analysis, current_prompt, previous_prompt, iteration, previous_analyses) ==
    IF iteration <= 2 THEN Decision("none", TRUE, "warm-up")
    ELSE comprehensive_evaluation(analysis)

\* evaluate_quality with the warm-up tests (iteration 1, 2, 3) missing
evaluate_quality_no_baseline(analysis, current_prompt, previous_prompt, iteration, previous_analyses) ==
    comprehensive_evaluation(analysis)

\* lines 38-83: [exc, should_continue, reason]; previous_analyses = None is []
evaluate_quality(analysis, current_prompt, previous_prompt, iteration, previous_analyses) ==
    IF iteration = 1 THEN Decision("none", TRUE, "Initial iteration establishing baseline")
    ELSE IF iteration = 2 THEN
        LET pc_ == analyze_prompt_differences(previous_prompt, current_prompt)
        IN IF pc_.exc # "none" THEN Decision(pc_.exc, FALSE, "")
           ELSE IF previous_analyses = <<>> THEN Decision("IndexError", FALSE, "")
           ELSE LET im == compare_analyses(previous_analyses[Len(previous_analyses)], analysis)
                IN IF im.exc # "none" THEN Decision(im.exc, FALSE, "")
                   ELSE Decision("none", TRUE, "Analyzing prompt-to-image relationship")
    ELSE IF iteration = 3 THEN
        LET sy == synthesize_learning(previous_analyses, analysis, previous_prompt, current_prompt)
        IN IF sy.exc # "none" THEN Decision(sy.exc, FALSE, "")
           ELSE Decision("none", TRUE, "Synthesizing learnings")
    ELSE comprehensive_evaluation(analysis)

\* ---------------------------------------------------------------- state
VARIABLES
    binding,        \* which collaborators the orchestrator calls: "repo" or "double"
    config_yaml,    \* config.yaml: [max_iterations, text_provider]
    run_dir,        \* the run directory exists
    config_dump,    \* config_dump.json: NoFile or [goal, max_iterations, text_provider, output_dir]
    started_txt,    \* started.txt exists
    canceled_txt,   \* canceled.txt exists
    goal_analysis,  \* goal_analysis.json: NoFile or [goal, analysis, initial_prompt]
    records,        \* iteration_<n>.json: NoFile or the dumped log_data
    generations,    \* n such that generations/iteration_<n>.png exists
    worker,         \* per thread/process running the orchestrator: its locals and position
    reply,          \* the last HTTP response of the dashboard
    trace,          \* history: the calls and writes of the workers, in order
    probe           \* a direct call of one function: its arguments and its result

vars == <<binding, config_yaml, run_dir, config_dump, started_txt, canceled_txt,
          goal_analysis, records, generations, worker, reply, trace, probe>>

Iterations == 1..MaxIters
\* the indices an iteration_<n>.json may carry; iteration_0.json is the
\* synthetic record of the run directory layout, which no code writes
RecordIndices == 0..MaxIters

IdleWorker ==
    [pc |-> "none", goal |-> <<>>, max_iters |-> 0, provider |-> "", output_dir |-> "",
     iteration |-> 0, current_prompt |-> PyNone, previous_prompt |-> PyNone,
     previous_analyses |-> <<>>, analysis |-> PyNone, response |-> PyNone,
     quality |-> Decision("none", FALSE, ""), log_data |-> NoFile, exc |-> "none",
     exit |-> "none", stage |-> "none", goal_text_calls |-> 0]

InitCommon ==
    /\ config_yaml \in [max_iterations : {MaxIters}, text_provider : Providers]
    /\ run_dir = FALSE
    /\ config_dump = NoFile
    /\ started_txt = FALSE
    /\ canceled_txt = FALSE
    /\ goal_analysis = NoFile
    /\ records = [n \in RecordIndices |-> NoFile]
    /\ generations = {}
    /\ worker = [w \in Workers |-> IdleWorker]
    /\ reply = [op |-> "none"]
    /\ trace = <<>>

NoProbe == [fn |-> "none"]

Event(op, w, n) == [op |-> op, w |-> w, n |-> n]

\* ---------------------------------------------------------------- app.py handlers
MaxOverrides ==
    {[given |-> FALSE, valid |-> TRUE, value |-> 0], [given |-> TRUE, valid |-> FALSE, value |-> 0]}
    \cup {[given |-> TRUE, valid |-> TRUE, value |-> v] : v \in 0..MaxIters}
OutputDirs == {"generations", "elsewhere"}

\* create_run making the run directory before it validates the form
create_run_mkdir_first(goal, mx, out) ==
    IF Strip(goal) = <<>> THEN
        /\ reply' = [op |-> "create_run", code |-> 400, error |-> "Goal is required"]
        /\ run_dir' = TRUE
        /\ UNCHANGED config_dump
    ELSE IF mx.given /\ ~mx.valid THEN
        /\ reply' = [op |-> "create_run", code |-> 400, error |-> "Invalid max_iterations value"]
        /\ run_dir' = TRUE
        /\ UNCHANGED config_dump
    ELSE
        /\ run_dir' = TRUE
        /\ config_dump' =
              [goal |-> Strip(goal),
               max_iterations |-> IF mx.given THEN mx.value ELSE config_yaml.max_iterations,
               text_provider |-> config_yaml.text_provider,
               output_dir |-> out]
        /\ reply' = [op |-> "create_run", code |-> 200]

\* POST /create_run, lines 81-135; run names are unique, so the handler runs
\* once for the modelled run
create_run(goal, mx, out) ==
    IF Strip(goal) = <<>> THEN
        /\ reply' = [op |-> "create_run", code |-> 400, error |-> "Goal is required"]
        /\ UNCHANGED <<run_dir, config_dump>>
    ELSE IF mx.given /\ ~mx.valid THEN
        /\ reply' = [op |-> "create_run", code |-> 400, error |-> "Invalid max_iterations value"]
        /\ UNCHANGED <<run_dir, config_dump>>
    ELSE
        /\ run_dir' = TRUE
        /\ config_dump' =
              [goal |-> Strip(goal),
               max_iterations |-> IF mx.given THEN mx.value ELSE config_yaml.max_iterations,
               text_provider |-> config_yaml.text_provider,
               output_dir |-> out]
        /\ reply' = [op |-> "create_run", code |-> 200]

CreateRun ==
    /\ ~run_dir
    /\ \E goal \in Goals \cup {<<>>, <<" ">>}, mx \in MaxOverrides, out \in OutputDirs :
          create_run(goal, mx, out)
    /\ UNCHANGED <<binding, config_yaml, started_txt, canceled_txt, goal_analysis,
                   records, generations, worker, trace, probe>>

\* the thread a start_run call would spawn: the lowest unused one
FreeWorker(w) == /\ worker[w].pc = "none"
                 /\ \A v \in Workers : v < w => worker[v].pc # "none"

\* start_run without the test of the started marker
start_run_ignoring_marker(w) ==
    IF ~run_dir THEN
        /\ reply' = [op |-> "start_run", code |-> 404, error |-> "Run not found"]
        /\ UNCHANGED <<worker, trace>>
    ELSE
        /\ FreeWorker(w)
        /\ worker' = [worker EXCEPT ![w].pc = "spawned"]
        /\ UNCHANGED trace
        /\ reply' = [op |-> "start_run", code |-> 200, message |-> "started"]

\* POST /start_run/<run_name>, lines 164-187
start_run(w) ==
    IF ~run_dir THEN
        /\ reply' = [op |-> "start_run", code |-> 404, error |-> "Run not found"]
        /\ UNCHANGED <<worker, trace>>
    ELSE IF started_txt THEN
        /\ reply' = [op |-> "start_run", code |-> 200, message |-> "Run already started"]
        /\ UNCHANGED <<worker, trace>>
    ELSE
        /\ FreeWorker(w)
        /\ worker' = [worker EXCEPT ![w].pc = "spawned"]
        /\ UNCHANGED trace
        /\ reply' = [op |-> "start_run", code |-> 200, message |-> "started"]

StartRun ==
    \E w \in Workers :
        /\ start_run(w)
        /\ UNCHANGED <<binding, config_yaml, run_dir, config_dump, started_txt, canceled_txt,
                       goal_analysis, records, generations, probe>>

\* a cancel that also ends the workers of the run
CancelRun_interrupting ==
    /\ IF run_dir THEN
          /\ canceled_txt' = TRUE
          /\ worker' = [w \in Workers |->
                          IF worker[w].pc \in {"none", "done", "failed"} THEN worker[w]
                          ELSE [worker[w] EXCEPT !.pc = "failed", !.exc = "Canceled"]]
          /\ reply' = [op |-> "cancel_run", code |-> 200, message |-> "Run canceled"]
       ELSE
          /\ reply' = [op |-> "cancel_run", code |-> 404, error |-> "Run not found"]
          /\ UNCHANGED <<canceled_txt, worker>>
    /\ UNCHANGED <<binding, config_yaml, run_dir, config_dump, started_txt, goal_analysis,
                   records, generations, trace, probe>>

\* POST /runs/<run_name>/cancel, lines 334-343
CancelRun ==
    /\ IF run_dir THEN
          /\ canceled_txt' = TRUE
          /\ reply' = [op |-> "cancel_run", code |-> 200, message |-> "Run canceled"]
       ELSE
          /\ reply' = [op |-> "cancel_run", code |-> 404, error |-> "Run not found"]
          /\ UNCHANGED canceled_txt
    /\ UNCHANGED <<binding, config_yaml, run_dir, config_dump, started_txt, goal_analysis,
                   records, generations, worker, trace, probe>>

\* GET /results/<run_name>/status, lines 243-296: the JSON body
results_status ==
    LET images == generations
        logs == {n \in RecordIndices : records[n] # NoFile}
        max_iters == IF config_dump # NoFile THEN config_dump.max_iterations
                     ELSE config_yaml.max_iterations
    IN [op |-> "results_status", code |-> 200, images |-> images, logs |-> logs,
        done |-> (Cardinality(images) >= max_iters \/ canceled_txt),
        started |-> started_txt]

ResultsStatus ==
    /\ reply' = IF run_dir THEN results_status
                ELSE [op |-> "results_status", code |-> 404, error |-> "Run not found"]
    /\ UNCHANGED <<binding, config_yaml, run_dir, config_dump, started_txt, canceled_txt,
                   goal_analysis, records, generations, worker, trace, probe>>

\* ---------------------------------------------------------------- background worker
\* a raised exception ends the worker: logged at app.py 161-162, or the
\* process of main.py dies with it
Raise(w, exc) == [worker EXCEPT ![w].pc = "failed", ![w].exc = exc]

\* a worker entering run_iterations without writing started.txt
BackgroundStart_unmarked(w) ==
    /\ worker[w].pc = "spawned"
    /\ IF config_dump = NoFile THEN
          /\ worker' = Raise(w, "FileNotFoundError")
          /\ UNCHANGED <<started_txt, trace>>
       ELSE
          /\ worker' = [worker EXCEPT ![w].pc = "understand_goal",
                                      ![w].goal = config_dump.goal,
                                      ![w].max_iters = config_dump.max_iterations,
                                      ![w].provider = config_dump.text_provider,
                                      ![w].output_dir = config_dump.output_dir]
          /\ UNCHANGED <<started_txt, trace>>
    /\ UNCHANGED <<binding, config_yaml, run_dir, config_dump, canceled_txt, goal_analysis,
                   records, generations, reply, probe>>

\* background_run_iterations, lines 148-159: read config_dump.json, write
\* started.txt, enter run_iterations
BackgroundStart(w) ==
    /\ worker[w].pc = "spawned"
    /\ IF config_dump = NoFile THEN
          /\ worker' = Raise(w, "FileNotFoundError")
          /\ UNCHANGED <<started_txt, trace>>
       ELSE
          /\ started_txt' = TRUE
          /\ worker' = [worker EXCEPT ![w].pc = "understand_goal",
                                      ![w].goal = config_dump.goal,
                                      ![w].max_iters = config_dump.max_iterations,
                                      ![w].provider = config_dump.text_provider,
                                      ![w].output_dir = config_dump.output_dir]
          /\ UNCHANGED trace
    /\ UNCHANGED <<binding, config_yaml, run_dir, config_dump, canceled_txt, goal_analysis,
                   records, generations, reply, probe>>

\* ---------------------------------------------------------------- orchestrator
\* run_iterations line 178, understand_goal lines 16-25: the text call
UnderstandGoalCall(w) ==
    /\ worker[w].pc = "understand_goal"
    /\ \E out \in BackendOutcomes :
          LET r == understand_goal_call(binding, worker[w].provider, worker[w].goal, out)
          IN /\ worker' = IF r.exc # "none" THEN Raise(w, r.exc)
                          ELSE [worker EXCEPT ![w].pc = "extract", ![w].response = r.response,
                                              ![w].goal_text_calls = @ + 1]
    /\ UNCHANGED <<binding, config_yaml, run_dir, config_dump, started_txt, canceled_txt,
                   goal_analysis, records, generations, reply, trace, probe>>

\* understand_goal lines 27-32: the initial prompt is the last line of the response
UnderstandGoalExtract(w) ==
    /\ worker[w].pc = "extract"
    /\ LET r == understand_goal_extract(worker[w].response)
       IN worker' = IF r.exc # "none" THEN Raise(w, r.exc)
                    ELSE [worker EXCEPT ![w].pc = "save_goal",
                                        ![w].analysis = PyStr(r.analysis),
                                        ![w].current_prompt = PyStr(r.initial_prompt)]
    /\ UNCHANGED <<binding, config_yaml, run_dir, config_dump, started_txt, canceled_txt,
                   goal_analysis, records, generations, reply, trace, probe>>

Absent == [kind |-> "absent"]

\* run_iterations lines 184-197: goal_analysis.json, then the loop's locals
WriteGoalAnalysis(w) ==
    /\ worker[w].pc = "save_goal"
    /\ goal_analysis' = [goal |-> worker[w].goal, analysis |-> worker[w].analysis.val,
                         initial_prompt |-> worker[w].current_prompt.val]
    /\ worker' = [worker EXCEPT ![w].pc = "loop", ![w].iteration = 0,
                                ![w].previous_prompt = PyNone,
                                ![w].previous_analyses = <<>>]
    /\ trace' = Append(trace, Event("write_goal_analysis", w, 0))
    /\ UNCHANGED <<binding, config_yaml, run_dir, config_dump, started_txt, canceled_txt,
                   records, generations, reply, probe>>

\* lines 199-200 and 266: the loop test, the only place between two iterations
\* the loop test admitting one iteration more
loop_head_inclusive(w) ==
    IF worker[w].iteration <= worker[w].max_iters
    THEN [worker EXCEPT ![w].pc = "generate", ![w].iteration = @ + 1]
    ELSE [worker EXCEPT ![w].pc = "done", ![w].exit = "budget"]

loop_head(w) ==
    IF worker[w].iteration < worker[w].max_iters
    THEN [worker EXCEPT ![w].pc = "generate", ![w].iteration = @ + 1]
    ELSE [worker EXCEPT ![w].pc = "done", ![w].exit = "budget"]

LoopHead(w) ==
    /\ worker[w].pc = "loop"
    /\ worker' = loop_head(w)
    /\ UNCHANGED <<binding, config_yaml, run_dir, config_dump, started_txt, canceled_txt,
                   goal_analysis, records, generations, reply, trace, probe>>

GenerateOutcomes == {"ok", "ValueError", "Exception"}

\* line 204: generate_image(current_prompt, config, iteration) saves
\* <output_dir>/iteration_<n>.png or raises (malformed template, backend failure)
GenerateImage(w) ==
    /\ worker[w].pc = "generate"
    /\ \E g \in GenerateOutcomes :
          IF g = "ok" THEN
              /\ generations' = IF worker[w].output_dir = "generations"
                                THEN generations \cup {worker[w].iteration}
                                ELSE generations
              /\ worker' = [worker EXCEPT ![w].pc = "analyze"]
              /\ trace' = Append(trace, Event("generate_image", w, worker[w].iteration))
          ELSE
              /\ worker' = Raise(w, g)
              /\ trace' = Append(trace, Event("generate_image", w, worker[w].iteration))
              /\ UNCHANGED generations
    /\ UNCHANGED <<binding, config_yaml, run_dir, config_dump, started_txt, canceled_txt,
                   goal_analysis, records, reply, probe>>

\* lines 209-210: analysis = analyze_image(image_path, config), the stage
\* being the default of evaluation.analyze_image
AnalyzeImage(w) ==
    /\ worker[w].pc = "analyze"
    /\ \E out \in VisionDoubleOutcomes :
          LET r == VisionDouble(out)
          IN worker' = IF r.exc # "none"
                       THEN [Raise(w, r.exc) EXCEPT ![w].stage = "describe"]
                       ELSE [worker EXCEPT ![w].pc = "evaluate", ![w].analysis = r.value,
                                           ![w].stage = "describe"]
    /\ trace' = Append(trace, Event("analyze_image", w, worker[w].iteration))
    /\ UNCHANGED <<binding, config_yaml, run_dir, config_dump, started_txt, canceled_txt,
                   goal_analysis, records, generations, reply, probe>>

\* lines 214-221
EvaluateQuality(w) ==
    /\ worker[w].pc = "evaluate"
    /\ LET q == evaluate_quality(worker[w].analysis, worker[w].current_prompt,
                                 worker[w].previous_prompt, worker[w].iteration,
                                 worker[w].previous_analyses)
       IN worker' = IF q.exc # "none" THEN Raise(w, q.exc)
                    ELSE [worker EXCEPT ![w].pc = "log", ![w].quality = q]
    /\ UNCHANGED <<binding, config_yaml, run_dir, config_dump, started_txt, canceled_txt,
                   goal_analysis, records, generations, reply, trace, probe>>

\* lines 224-235: the dict dumped to iteration_<n>.json
LogData(w) ==
    [iteration |-> worker[w].iteration,
     goal |-> worker[w].goal,
     prompt_before |-> worker[w].current_prompt,
     analysis |-> worker[w].analysis,
     image_path |-> worker[w].iteration,
     should_continue |-> worker[w].quality.should_continue,
     reason |-> worker[w].quality.reason,
     prompt_after |-> Absent]

\* the stop test of line 242 inverted
after_log_inverted(w) ==
    IF worker[w].quality.should_continue
    THEN [worker EXCEPT ![w].pc = "done", ![w].exit = "break", ![w].log_data = LogData(w)]
    ELSE [worker EXCEPT ![w].pc = "refine", ![w].log_data = LogData(w),
                        ![w].previous_analyses = Append(@, worker[w].analysis)]

\* lines 242-248: break, or remember the analysis and go on to the refinement
after_log(w) ==
    IF ~worker[w].quality.should_continue
    THEN [worker EXCEPT ![w].pc = "done", ![w].exit = "break", ![w].log_data = LogData(w)]
    ELSE [worker EXCEPT ![w].pc = "refine", ![w].log_data = LogData(w),
                        ![w].previous_analyses = Append(@, worker[w].analysis)]

\* the iteration handled without the first dump of lines 237-240
WriteIterationLog_unsaved(w) ==
    /\ worker[w].pc = "log"
    /\ worker' = after_log(w)
    /\ trace' = Append(trace, Event("write_record", w, worker[w].iteration))
    /\ UNCHANGED <<binding, config_yaml, run_dir, config_dump, started_txt, canceled_txt,
                   goal_analysis, records, generations, reply, probe>>

\* lines 224-248: first write of iteration_<n>.json, then the stop decision
WriteIterationLog(w) ==
    /\ worker[w].pc = "log"
    /\ records' = [records EXCEPT ![worker[w].iteration] = LogData(w)]
    /\ worker' = after_log(w)
    /\ trace' = Append(trace, Event("write_record", w, worker[w].iteration))
    /\ UNCHANGED <<binding, config_yaml, run_dir, config_dump, started_txt, canceled_txt,
                   goal_analysis, generations, reply, probe>>

\* lines 251-260: the refinement call
RefinePrompt(w) ==
    /\ worker[w].pc = "refine"
    /\ \E out \in RefineDoubleOutcomes(worker[w].iteration) :
          LET r == IF binding = "repo" THEN refine_prompt(out) ELSE RefineDouble(out)
          IN worker' = IF r.exc # "none"
                       THEN [Raise(w, r.exc) EXCEPT ![w].previous_prompt = worker[w].current_prompt]
                       ELSE [worker EXCEPT ![w].pc = "update",
                                           ![w].previous_prompt = worker[w].current_prompt,
                                           ![w].current_prompt = r.value,
                                           ![w].log_data = [@ EXCEPT !.prompt_after = r.value]]
    /\ trace' = Append(trace, Event("refine_prompt", w, worker[w].iteration))
    /\ UNCHANGED <<binding, config_yaml, run_dir, config_dump, started_txt, canceled_txt,
                   goal_analysis, records, generations, reply, probe>>

\* the loop going on without the second dump of lines 263-264
UpdateIterationLog_skipped(w) ==
    /\ worker[w].pc = "update"
    /\ worker' = [worker EXCEPT ![w].pc = "loop"]
    /\ trace' = Append(trace, Event("update_record", w, worker[w].iteration))
    /\ UNCHANGED <<binding, config_yaml, run_dir, config_dump, started_txt, canceled_txt,
                   goal_analysis, records, generations, reply, probe>>

\* the second dump made from a log_data rebuilt after the refinement
UpdateIterationLog_rebuilt(w) ==
    /\ worker[w].pc = "update"
    /\ records' = [records EXCEPT ![worker[w].iteration] =
                      [LogData(w) EXCEPT !.prompt_after = worker[w].current_prompt]]
    /\ worker' = [worker EXCEPT ![w].pc = "loop"]
    /\ trace' = Append(trace, Event("update_record", w, worker[w].iteration))
    /\ UNCHANGED <<binding, config_yaml, run_dir, config_dump, started_txt, canceled_txt,
                   goal_analysis, generations, reply, probe>>

\* lines 262-264: iteration_<n>.json rewritten with prompt_after
UpdateIterationLog(w) ==
    /\ worker[w].pc = "update"
    /\ records' = [records EXCEPT ![worker[w].iteration] = worker[w].log_data]
    /\ worker' = [worker EXCEPT ![w].pc = "loop"]
    /\ trace' = Append(trace, Event("update_record", w, worker[w].iteration))
    /\ UNCHANGED <<binding, config_yaml, run_dir, config_dump, started_txt, canceled_txt,
                   goal_analysis, generations, reply, probe>>

\* ---------------------------------------------------------------- main.py
\* --max_iterations: absent (or 0, which is falsy) or a positive number
CliOverrides == 0..MaxIters

\* main(), lines 58-82: the directories, the output directory inside the run,
\* then run_iterations in the calling process
Main ==
    /\ ~run_dir
    /\ worker[1].pc = "none"
    /\ \E goal \in Goals, mx \in CliOverrides :
          worker' = [worker EXCEPT ![1].pc = "understand_goal",
                                   ![1].goal = goal,
                                   ![1].max_iters = IF mx # 0 THEN mx
                                                    ELSE config_yaml.max_iterations,
                                   ![1].provider = config_yaml.text_provider,
                                   ![1].output_dir = "generations"]
    /\ run_dir' = TRUE
    /\ UNCHANGED <<binding, config_yaml, config_dump, started_txt, canceled_txt,
                   goal_analysis, records, generations, reply, trace, probe>>

\* ---------------------------------------------------------------- the program as composed
Init == InitCommon /\ binding = "repo" /\ probe = NoProbe

Next ==
    \/ CreateRun
    \/ StartRun
    \/ CancelRun
    \/ ResultsStatus
    \/ \E w \in Workers : BackgroundStart(w)
    \/ \E w \in Workers : UnderstandGoalCall(w)
    \/ \E w \in Workers : UnderstandGoalExtract(w)

Spec == Init /\ [][Next]_vars

\* ---------------------------------------------------------------- run_iterations from main.py
\* the CLI process runs the orchestrator; the dashboard's cancel and status
\* handlers work on the same runs directory
InitLoop == InitCommon /\ binding = "double" /\ probe = NoProbe

NextLoop ==
    \/ Main
    \/ CancelRun
    \/ UnderstandGoalCall(1)
    \/ UnderstandGoalExtract(1)
    \/ WriteGoalAnalysis(1)
    \/ LoopHead(1)
    \/ GenerateImage(1)
    \/ AnalyzeImage(1)
    \/ EvaluateQuality(1)
    \/ WriteIterationLog(1)
    \/ RefinePrompt(1)
    \/ UpdateIterationLog(1)

SpecLoop == InitLoop /\ [][NextLoop]_vars

\* the process running run_iterations keeps running, and every call it makes
\* returns or raises: each step of the worker that is possible is taken
WorkerStep ==
    \/ UnderstandGoalCall(1)
    \/ UnderstandGoalExtract(1)
    \/ WriteGoalAnalysis(1)
    \/ LoopHead(1)
    \/ GenerateImage(1)
    \/ AnalyzeImage(1)
    \/ EvaluateQuality(1)
    \/ WriteIterationLog(1)
    \/ RefinePrompt(1)
    \/ UpdateIterationLog(1)

InitLoopFair == InitLoop /\ config_yaml.text_provider = "ollama"

NextLoopFair == Main \/ WorkerStep

SpecLoopFair == InitLoopFair /\ [][NextLoopFair]_vars /\ WF_vars(WorkerStep)

\* ---------------------------------------------------------------- the dashboard with a worker that reaches the loop
\* POST /runs/<run_name>/goal, app.py 346-367: goal_analysis.json is read if
\* it exists, its goal replaced, and the file written
EditRunGoal ==
    /\ \E new_goal \in {<<"castle">>, <<>>} :
          IF new_goal = <<>> THEN
              /\ reply' = [op |-> "edit_run_goal", code |-> 400, error |-> "No new goal provided"]
              /\ UNCHANGED goal_analysis
          ELSE IF run_dir THEN
              /\ goal_analysis' = IF goal_analysis = NoFile THEN [goal |-> new_goal]
                                  ELSE [goal_analysis EXCEPT !.goal = new_goal]
              /\ reply' = [op |-> "edit_run_goal", code |-> 200, message |-> "Goal updated"]
          ELSE
              /\ reply' = [op |-> "edit_run_goal", code |-> 404, error |-> "Run not found"]
              /\ UNCHANGED goal_analysis
    /\ UNCHANGED <<binding, config_yaml, run_dir, config_dump, started_txt, canceled_txt,
                   records, generations, worker, trace, probe>>

\* the steps of run_iterations in worker w
RunIterationsStep(w) ==
    \/ UnderstandGoalCall(w)
    \/ UnderstandGoalExtract(w)
    \/ WriteGoalAnalysis(w)
    \/ LoopHead(w)
    \/ GenerateImage(w)
    \/ AnalyzeImage(w)
    \/ EvaluateQuality(w)
    \/ WriteIterationLog(w)
    \/ RefinePrompt(w)
    \/ UpdateIterationLog(w)

InitApp == InitCommon /\ binding = "double" /\ config_yaml.text_provider = "ollama" /\ probe = NoProbe

\* run_iterations is followed in the first worker of the run; a further
\* worker of the same run is followed up to its entry into run_iterations
NextApp ==
    \/ CreateRun
    \/ StartRun
    \/ EditRunGoal
    \/ \E w \in Workers : BackgroundStart(w)
    \/ RunIterationsStep(1)

SpecApp == InitApp /\ [][NextApp]_vars

\* ---------------------------------------------------------------- direct calls
Pending == [exc |-> "pending"]
others == <<binding, config_yaml, run_dir, config_dump, started_txt, canceled_txt,
            goal_analysis, records, generations, worker, reply, trace>>

\* analyze_image(image_path, config, stage) on every provider, stage, goal,
\* description and outcome of the call
VisionCalls ==
    { [fn |-> "analyze_image", provider |-> p, stage |-> st, current_goal |-> g,
       image_description |-> d, out |-> o, result |-> Pending] :
        p \in Providers, st \in Stages, g \in Goals \cup {<<>>},
        d \in {<<>>, <<"a", " ", "tower">>}, o \in VisionOutcomes }

InitVision ==
    InitCommon /\ binding = "repo" /\ config_yaml.text_provider = "ollama" /\ probe \in VisionCalls

CallAnalyzeImage ==
    /\ probe.fn = "analyze_image"
    /\ probe.result = Pending
    /\ probe' = [probe EXCEPT !.result =
                    analyze_image(probe.provider, probe.stage, probe.current_goal,
                                  probe.image_description, probe.out)]
    /\ UNCHANGED others

SpecVision == InitVision /\ [][CallAnalyzeImage]_vars

\* texts put together from at most k fragments
Fragments ==
    { <<"perfectly", " ", "match", "es">>, <<"Perfectly", " ", "match", "es">>,
      <<"needs", " ", "adjustment">>, <<" ">>, <<"sky">>, <<"better">> }
RECURSIVE Texts(_)
Texts(k) == IF k = 0 THEN {<<>>}
            ELSE Texts(k - 1) \cup {t \o f : t \in Texts(k - 1), f \in Fragments}

EvalAnalyses == {PyStr(t) : t \in Texts(MaxLen)} \cup {Exchange(<<>>, <<>>, <<"sky">>)}
EvalPrompts == {PyStr(<<"a", " ", "castle">>), PyStr(<<"a", " ", "Castle", " ", "wall">>)}
EvalHistories ==
    { <<>>,
      <<PyStr(<<>>)>>,
      <<PyStr(<<"needs", " ", "adjustment">>)>>,
      <<PyStr(<<"needs", " ", "adjustment">>), PyStr(<<"needs", " ", "better", " ", "sky">>)>> }

\* evaluate_quality(analysis, current_prompt, previous_prompt, config, iteration,
\* previous_analyses) on every critique, prompt pair, iteration and history
EvalCalls ==
    { [fn |-> "evaluate_quality", analysis |-> a, current_prompt |-> c,
       previous_prompt |-> pp, iteration |-> i, previous_analyses |-> h,
       result |-> Pending] :
        a \in EvalAnalyses, c \in EvalPrompts, pp \in {PyNone, PyStr(<<"a", " ", "castle">>)},
        i \in 1..(MaxIters + 1), h \in EvalHistories }

InitEval ==
    InitCommon /\ binding = "repo" /\ config_yaml.text_provider = "ollama" /\ probe \in EvalCalls

CallEvaluateQuality ==
    /\ probe.fn = "evaluate_quality"
    /\ probe.result = Pending
    /\ probe' = [probe EXCEPT !.result =
                    evaluate_quality(probe.analysis, probe.current_prompt,
                                     probe.previous_prompt, probe.iteration,
                                     probe.previous_analyses)]
    /\ UNCHANGED others

SpecEval == InitEval /\ [][CallEvaluateQuality]_vars

\* ---------------------------------------------------------------- workflow graph mutator
\* comfyui_prompt_template.json: the nodes in file order, a node's id is its
\* position; 0 stands for None.  An input a node does not have is NoText
\* (text, filename_prefix) or NoSeed (noise_seed, seed).
NoText == "<absent>"
NoSeed == 0 - 1
WfNode(class_type, title, text, filename_prefix, noise_seed, seed) ==
    [class_type |-> class_type, title |-> title,
     inputs |-> [text |-> text, filename_prefix |-> filename_prefix,
                 noise_seed |-> noise_seed, seed |-> seed]]
NodeKinds ==
    { WfNode("CLIPTextEncode", <<"Positive">>, "PROMPT_PLACEHOLDER", NoText, NoSeed, NoSeed),
      WfNode("CLIPTextEncode", <<"Negative">>, "blurry", NoText, NoSeed, NoSeed),
      WfNode("SaveImage", <<"Save", " ", "Image">>, NoText, "ComfyUI", NoSeed, NoSeed),
      WfNode("RandomNoise", <<"Noise">>, NoText, NoText, 0, NoSeed),
      WfNode("KSampler", <<"Random", " ", "sampler">>, NoText, NoText, NoSeed, 0),
      WfNode("SamplerCustom", <<"Sampler">>, NoText, NoText, 0, NoSeed) }
Templates == UNION {[1..k -> NodeKinds] : k \in 0..MaxNodes}

\* generate_random_seed(): some seed of random.randint(1, 1000000000)
Seeds == {1, 1000000000}

\* lines 73-78: the first node of the class, or None
find_node_by_class(workflow, class_type) ==
    IF \E i \in DOMAIN workflow : workflow[i].class_type = class_type
    THEN CHOOSE i \in DOMAIN workflow :
            /\ workflow[i].class_type = class_type
            /\ \A j \in 1..(i - 1) : workflow[j].class_type # class_type
    ELSE 0

\* the first CLIPTextEncode node, whatever its text
find_prompt_node_any_encoder(workflow) ==
    LET n == find_node_by_class(workflow, "CLIPTextEncode")
    IN IF n # 0 THEN [node_id |-> n, error |-> ""]
       ELSE [node_id |-> 0, error |-> "No CLIPTextEncode node with PROMPT_PLACEHOLDER found"]

\* lines 88-97: the first CLIPTextEncode node whose text is the placeholder
find_prompt_node(workflow) ==
    LET hit(i) == /\ workflow[i].class_type = "CLIPTextEncode"
                  /\ workflow[i].inputs.text = "PROMPT_PLACEHOLDER"
    IN IF \E i \in DOMAIN workflow : hit(i)
       THEN [node_id |-> CHOOSE i \in DOMAIN workflow : hit(i) /\ \A j \in 1..(i - 1) : ~hit(j),
             error |-> ""]
       ELSE [node_id |-> 0, error |-> "No CLIPTextEncode node with PROMPT_PLACEHOLDER found"]

\* lines 99-123: by class RandomNoise, then by "random" in the title, then by
\* a noise_seed input
find_seed_node(workflow) ==
    LET by_title(i) == Contains(Lower(workflow[i].title), <<"random">>)
        by_input(i) == workflow[i].inputs.noise_seed # NoSeed
        first_title == CHOOSE i \in DOMAIN workflow :
                          by_title(i) /\ \A j \in 1..(i - 1) : ~by_title(j)
        first_input == CHOOSE i \in DOMAIN workflow :
                          by_input(i) /\ \A j \in 1..(i - 1) : ~by_input(j)
    IN IF find_node_by_class(workflow, "RandomNoise") # 0
       THEN [node_id |-> find_node_by_class(workflow, "RandomNoise"), error |-> ""]
       ELSE IF \E i \in DOMAIN workflow : by_title(i)
       THEN [node_id |-> first_title, error |-> ""]
       ELSE IF \E i \in DOMAIN workflow : by_input(i)
       THEN [node_id |-> first_input, error |-> ""]
       ELSE [node_id |-> 0, error |-> "No random seed node found"]

\* lines 134-145: the three slots, or the message of the ValueError raised
resolve_slots(workflow) ==
    LET p == find_prompt_node(workflow)
        s == find_node_by_class(workflow, "SaveImage")
        r == find_seed_node(workflow)
    IN IF p.error # "" THEN [error |-> p.error, prompt |-> 0, save |-> 0, seed |-> 0]
       ELSE IF s = 0
       THEN [error |-> "No SaveImage node found in workflow", prompt |-> 0, save |-> 0, seed |-> 0]
       ELSE IF r.error # "" THEN [error |-> r.error, prompt |-> 0, save |-> 0, seed |-> 0]
       ELSE [error |-> "", prompt |-> p.node_id, save |-> s, seed |-> r.node_id]

FilenamePrefix(iteration) == "iteration_" \o ToString(iteration)

\* the mutation setting every seed input of the seed node
mutate_workflow_any_seed(workflow, slots, prompt_text, iteration, new_seed) ==
    LET w1 == [workflow EXCEPT ![slots.prompt].inputs.text = prompt_text]
        w2 == [w1 EXCEPT ![slots.save].inputs.filename_prefix = FilenamePrefix(iteration)]
    IN [w2 EXCEPT ![slots.seed].inputs.noise_seed = new_seed,
                  ![slots.seed].inputs.seed = new_seed]

\* lines 147-153: the prompt, the filename prefix, and the seed when the seed
\* node has a noise_seed input
mutate_workflow(workflow, slots, prompt_text, iteration, new_seed) ==
    LET w1 == [workflow EXCEPT ![slots.prompt].inputs.text = prompt_text]
        w2 == [w1 EXCEPT ![slots.save].inputs.filename_prefix = FilenamePrefix(iteration)]
    IN IF w2[slots.seed].inputs.noise_seed # NoSeed
       THEN [w2 EXCEPT ![slots.seed].inputs.noise_seed = new_seed]
       ELSE w2

\* what the generation backend does with one job
ComfyOutcomes == {"refused", "image", "no_image", "URLError"}
NoGraph == <<[class_type |-> "none"]>>
NoArtifact == [dir |-> "", n |-> 0]
RaisedWith(e, msg) == [exc |-> e, msg |-> msg, value |-> PyNone]

\* generate_image(prompt_text, config, iteration) on every template
GraphCalls ==
    { [fn |-> "generate_image", template |-> t, prompt_text |-> "a lighthouse",
       iteration |-> n, output_dir |-> "generations", comfy |-> c, pc |-> "resolve",
       workflow |-> NoGraph, opened |-> FALSE, closed |-> FALSE, submitted |-> NoGraph,
       artifact |-> NoArtifact, result |-> Pending] :
        t \in Templates, n \in {1, MaxIters}, c \in ComfyOutcomes }

InitGraph ==
    InitCommon /\ binding = "repo" /\ config_yaml.text_provider = "ollama" /\ probe \in GraphCalls

\* lines 130-153: read the template, resolve the slots, mutate the graph
GraphResolve ==
    /\ probe.fn = "generate_image"
    /\ probe.pc = "resolve"
    /\ LET slots == resolve_slots(probe.template)
       IN IF slots.error # ""
          THEN probe' = [probe EXCEPT !.pc = "returned",
                                      !.result = RaisedWith("ValueError", slots.error)]
          ELSE \E new_seed \in Seeds :
                  probe' = [probe EXCEPT !.pc = "connect",
                                         !.workflow = mutate_workflow(probe.template, slots,
                                                         probe.prompt_text, probe.iteration,
                                                         new_seed)]
    /\ UNCHANGED others

\* lines 155-159: the websocket is connected, outside the try block
GraphConnect ==
    /\ probe.fn = "generate_image"
    /\ probe.pc = "connect"
    /\ probe' = IF probe.comfy = "refused"
                THEN [probe EXCEPT !.pc = "returned",
                                   !.result = RaisedWith("ConnectionRefusedError", "")]
                ELSE [probe EXCEPT !.pc = "submit", !.opened = TRUE]
    /\ UNCHANGED others

\* the job queued with no finally clause around it
GraphSubmit_unclosed ==
    /\ probe.fn = "generate_image"
    /\ probe.pc = "submit"
    /\ probe' = IF probe.comfy = "URLError"
                THEN [probe EXCEPT !.pc = "returned",
                                   !.result = RaisedWith("URLError", "")]
                ELSE [probe EXCEPT !.pc = "save", !.submitted = probe.workflow]
    /\ UNCHANGED others

\* lines 161-163 and get_images 36-67: the job is queued and its outputs are
\* fetched; ws.close() in the finally clause when that raises
GraphSubmit ==
    /\ probe.fn = "generate_image"
    /\ probe.pc = "submit"
    /\ probe' = IF probe.comfy = "URLError"
                THEN [probe EXCEPT !.pc = "returned", !.closed = TRUE,
                                   !.result = RaisedWith("URLError", "")]
                ELSE [probe EXCEPT !.pc = "save", !.submitted = probe.workflow]
    /\ UNCHANGED others

\* lines 165-176: the first image of the SaveImage node is saved as
\* <output_dir>/iteration_<n>.png, or Exception when it produced none
GraphSave ==
    /\ probe.fn = "generate_image"
    /\ probe.pc = "save"
    /\ probe' = IF probe.comfy = "image"
                THEN [probe EXCEPT !.pc = "returned", !.closed = TRUE,
                         !.artifact = [dir |-> probe.output_dir, n |-> probe.iteration],
                         !.result = Returned([dir |-> probe.output_dir, n |-> probe.iteration])]
                ELSE [probe EXCEPT !.pc = "returned", !.closed = TRUE,
                         !.result = RaisedWith("Exception", "No image generated by SaveImage node")]
    /\ UNCHANGED others

NextGraph == GraphResolve \/ GraphConnect \/ GraphSubmit \/ GraphSave

SpecGraph == InitGraph /\ [][NextGraph]_vars

\* ---------------------------------------------------------------- two runs of the dashboard
\* Two run names, each created by create_run and started by start_run; their
\* workers go through the iterations with collaborators that answer.  A path
\* is a directory (a sequence of names) and a file in it.
RunNames == {"r1", "r2"}
run_path(run_name) == <<"runs", run_name>>
\* config["comfyui"]["output_dir"] of config.yaml: one directory for the installation
ConfiguredOutputDir == <<"output">>
\* the output_dir field of the create_run form: empty, or a directory
FormOutputDirs == {<<>>, <<"runs", "r1", "generations">>, <<"runs", "r2", "generations">>}

\* create_run lines 105 and 114-115: the directory stored in config_dump.json
create_run_output_dir(form_output_dir) ==
    IF form_output_dir # <<>> THEN form_output_dir ELSE ConfiguredOutputDir

\* generate_image lines 166-170: <output_dir>/iteration_<n>.png
artifact_path(output_dir, n) == [dir |-> output_dir, n |-> n, ext |-> "png"]
\* run_iterations line 237: <run_directory>/iteration_<n>.json
record_path(run_directory, n) == [dir |-> run_directory, n |-> n, ext |-> "json"]

IdleRun == [dump |-> NoFile, step |-> "none", iteration |-> 0]

InitRuns ==
    /\ InitCommon /\ binding = "double" /\ config_yaml.text_provider = "ollama"
    /\ probe = [fn |-> "runs", run |-> [r \in RunNames |-> IdleRun], written |-> {}]

\* POST /create_run with run_name = r
RunsCreate(r) ==
    /\ probe.fn = "runs"
    /\ probe.run[r].dump = NoFile
    /\ \E form_output_dir \in FormOutputDirs :
          probe' = [probe EXCEPT !.run[r].dump =
                        [kind |-> "file", output_dir |-> create_run_output_dir(form_output_dir),
                         max_iterations |-> config_yaml.max_iterations]]
    /\ UNCHANGED others

\* POST /start_run/r and background_run_iterations up to the loop
RunsStart(r) ==
    /\ probe.fn = "runs"
    /\ probe.run[r].dump # NoFile
    /\ probe.run[r].step = "none"
    /\ probe' = [probe EXCEPT !.run[r].step = "loop"]
    /\ UNCHANGED others

\* run_iterations lines 199-204: the next iteration's artifact is saved
RunsGenerate(r) ==
    /\ probe.fn = "runs"
    /\ probe.run[r].step = "loop"
    /\ IF probe.run[r].iteration < probe.run[r].dump.max_iterations
       THEN probe' = [probe EXCEPT
                         !.run[r].iteration = @ + 1,
                         !.run[r].step = "log",
                         !.written = @ \cup
                            {[path |-> artifact_path(probe.run[r].dump.output_dir,
                                                     probe.run[r].iteration + 1),
                              run |-> r]}]
       ELSE probe' = [probe EXCEPT !.run[r].step = "done"]
    /\ UNCHANGED others

\* run_iterations lines 237-240: the iteration's record is written
RunsRecord(r) ==
    /\ probe.fn = "runs"
    /\ probe.run[r].step = "log"
    /\ probe' = [probe EXCEPT
                    !.run[r].step = "loop",
                    !.written = @ \cup
                       {[path |-> record_path(run_path(r), probe.run[r].iteration),
                         run |-> r]}]
    /\ UNCHANGED others

NextRuns ==
    \E r \in RunNames : RunsCreate(r) \/ RunsStart(r) \/ RunsGenerate(r) \/ RunsRecord(r)

SpecRuns == InitRuns /\ [][NextRuns]_vars

\* ---------------------------------------------------------------- gateway calls and their side effects
\* One call of a dispatching function, step by step, with the requests,
\* unload signals and pauses it makes logged in order.
GatewayEntries == {"generate_text_with_provider", "understand_goal", "analyze_image"}
EntryKind(entry) == IF entry = "analyze_image" THEN "vision" ELSE "text"

\* a dispatch that treats every identifier but gemini as ollama
select_backend_default_ollama(provider) ==
    IF provider = "gemini" THEN "gemini" ELSE "ollama"

\* the if/elif/else on the provider identifier: ollama_text_utils.py 169-174,
\* evaluation.py 121-126, orchestrator.py 19-25
select_backend(provider) ==
    IF provider = "ollama" THEN "ollama"
    ELSE IF provider = "gemini" THEN "gemini"
    ELSE "unsupported"

GatewayCalls ==
    { [fn |-> "gateway", entry |-> e, provider |-> p, out |-> o, unload_ok |-> u,
       pc |-> "dispatch", backend |-> "none", log |-> <<>>, result |-> Pending] :
        e \in {"generate_text_with_provider", "understand_goal"}, p \in Providers,
        o \in [readable : {TRUE}, ok : {TRUE}, text : TextResponses]
              \cup [readable : {TRUE}, ok : {FALSE}, error : BackendErrors],
        u \in BOOLEAN }
    \cup
    { [fn |-> "gateway", entry |-> "analyze_image", provider |-> p, out |-> o,
       unload_ok |-> u, pc |-> "dispatch", backend |-> "none", log |-> <<>>,
       result |-> Pending] :
        p \in Providers, o \in VisionOutcomes, u \in BOOLEAN }

InitGateway ==
    InitCommon /\ binding = "repo" /\ config_yaml.text_provider = "ollama"
    /\ probe \in GatewayCalls

\* what the selected wrapper returns
GatewayResult(call) ==
    IF EntryKind(call.entry) = "vision"
    THEN analyze_image(call.provider, "describe", <<>>, <<>>, call.out)
    ELSE Returned(IF call.backend = "ollama"
                  THEN generate_text_ollama(GoalPrompt(<<"castle">>), PyNone, call.out)
                  ELSE generate_text_gemini(GoalPrompt(<<"castle">>), PyNone, call.out))

\* the dispatch: a wrapper is entered or ValueError is raised
GatewayDispatch ==
    /\ probe.fn = "gateway"
    /\ probe.pc = "dispatch"
    /\ LET b == select_backend(probe.provider)
       IN probe' = IF b = "unsupported"
                   THEN [probe EXCEPT !.pc = "returned", !.backend = b,
                                      !.result = Raised("ValueError")]
                   ELSE [probe EXCEPT !.backend = b,
                                      !.pc = IF EntryKind(probe.entry) = "vision"
                                             THEN "open" ELSE "request"]
    /\ UNCHANGED others

\* the image is read: evaluation.py 11-13 (before the try block) and line 72
\* (inside it)
GatewayOpenImage ==
    /\ probe.fn = "gateway"
    /\ probe.pc = "open"
    /\ probe' = IF probe.out.readable THEN [probe EXCEPT !.pc = "request"]
                ELSE IF probe.backend = "ollama"
                THEN [probe EXCEPT !.pc = "returned", !.result = Raised("FileNotFoundError")]
                ELSE [probe EXCEPT !.pc = "pause"]
    /\ UNCHANGED others

\* requests.post / generate_content inside the try block
GatewayRequest ==
    /\ probe.fn = "gateway"
    /\ probe.pc = "request"
    /\ probe' = [probe EXCEPT !.log = Append(@, "request"),
                              !.pc = IF probe.backend = "ollama" THEN "unload" ELSE "pause"]
    /\ UNCHANGED others

\* finally: unload_model(...), ollama_text_utils.py 13-27, whose own failure
\* is printed
GatewayUnload ==
    /\ probe.fn = "gateway"
    /\ probe.pc = "unload"
    /\ probe' = [probe EXCEPT !.log = Append(@, "unload"), !.pc = "pause"]
    /\ UNCHANGED others

\* finally: time.sleep(2), then the return
GatewayPause ==
    /\ probe.fn = "gateway"
    /\ probe.pc = "pause"
    /\ probe' = [probe EXCEPT !.log = Append(@, "sleep"), !.pc = "returned",
                              !.result = GatewayResult(probe)]
    /\ UNCHANGED others

NextGateway ==
    GatewayDispatch \/ GatewayOpenImage \/ GatewayRequest \/ GatewayUnload \/ GatewayPause

SpecGateway == InitGateway /\ [][NextGateway]_vars

\* ---------------------------------------------------------------- job protocol of the generation backend
\* get_images (generate_image.py 36-67) and the end of generate_image (lines
\* 161-178).  The frames that arrive on the websocket are a finite sequence;
\* after the last one ws.recv() waits.
OwnJob == "job-1"
Frames ==
    { [binary |-> TRUE, type |-> "", node |-> "", prompt_id |-> ""],
      [binary |-> FALSE, type |-> "executing", node |-> "null", prompt_id |-> OwnJob],
      [binary |-> FALSE, type |-> "executing", node |-> "null", prompt_id |-> "job-2"],
      [binary |-> FALSE, type |-> "executing", node |-> "9", prompt_id |-> OwnJob],
      [binary |-> FALSE, type |-> "executed", node |-> "null", prompt_id |-> OwnJob] }
Streams == UNION {[1..k -> Frames] : k \in 0..MaxLen}

\* a completion test that does not compare the job id
ends_wait_any_job(frame, prompt_id) ==
    /\ ~frame.binary
    /\ frame.type = "executing"
    /\ frame.node = "null"

\* lines 42-49: isinstance(out, str), message['type'] == 'executing',
\* data['node'] is None and data['prompt_id'] == prompt_id
ends_wait(frame, prompt_id) ==
    /\ ~frame.binary
    /\ frame.type = "executing"
    /\ frame.node = "null"
    /\ frame.prompt_id = prompt_id

\* history[prompt_id]['outputs']: per node of the graph that has an output,
\* its 'images' list, or no 'images' key
SaveNode == "9"
OtherNode == "8"
NoOutput == [out |-> FALSE, key |-> FALSE, images |-> <<>>]
NoImagesKey == [out |-> TRUE, key |-> FALSE, images |-> <<>>]
NodeOutputs ==
    {NoOutput, NoImagesKey}
    \cup {[out |-> TRUE, key |-> TRUE, images |-> i] : i \in {<<>>, <<"first">>, <<"first", "second">>}}
NotCollected == [in |-> FALSE, images |-> <<>>]
Manifests == [{SaveNode, OtherNode} -> NodeOutputs]

\* output_images built from a history with every image taken by the first
\* node that has any
collect_images_first_node(manifest) ==
    LET src == IF manifest[OtherNode].images # <<>> THEN OtherNode ELSE SaveNode
    IN [n \in {SaveNode, OtherNode} |->
          IF manifest[src].images # <<>> THEN [in |-> TRUE, images |-> manifest[src].images]
          ELSE IF manifest[n].out THEN [in |-> TRUE, images |-> <<>>]
          ELSE NotCollected]

\* lines 52-65: output_images[node_id] for every node of history['outputs']
collect_images(manifest) ==
    [n \in {SaveNode, OtherNode} |->
        IF ~manifest[n].out THEN NotCollected
        ELSE IF ~manifest[n].key THEN [in |-> TRUE, images |-> <<>>]
        ELSE [in |-> TRUE, images |-> manifest[n].images]]

NoArtifactPath == [dir |-> "", n |-> 0, ext |-> ""]
JobCalls ==
    { [fn |-> "get_images", stream |-> st, manifest |-> m, iteration |-> 1,
       output_dir |-> "generations", pc |-> "recv", pos |-> 0, fetched |-> FALSE,
       images |-> [n \in {SaveNode, OtherNode} |-> NotCollected], saved |-> "<none>",
       artifact |-> NoArtifactPath,
       result |-> [exc |-> "pending", msg |-> "", value |-> NoArtifactPath]] :
        st \in Streams, m \in Manifests }

InitJob ==
    InitCommon /\ binding = "repo" /\ config_yaml.text_provider = "ollama" /\ probe \in JobCalls

\* lines 40-49: one ws.recv()
JobRecv ==
    /\ probe.fn = "get_images"
    /\ probe.pc = "recv"
    /\ probe.pos < Len(probe.stream)
    /\ probe' = [probe EXCEPT !.pos = @ + 1,
                              !.pc = IF ends_wait(probe.stream[probe.pos + 1], OwnJob)
                                     THEN "history" ELSE "recv"]
    /\ UNCHANGED others

\* lines 51-67: the history is fetched and the images of its outputs collected
JobHistory ==
    /\ probe.fn = "get_images"
    /\ probe.pc = "history"
    /\ probe' = [probe EXCEPT !.pc = "save", !.fetched = TRUE,
                              !.images = collect_images(probe.manifest)]
    /\ UNCHANGED others

\* generate_image lines 165-176: the first image of the SaveImage node is
\* saved and its path returned, or Exception is raised
JobSave ==
    /\ probe.fn = "get_images"
    /\ probe.pc = "save"
    /\ probe' = IF probe.images[SaveNode].in /\ probe.images[SaveNode].images # <<>>
                THEN [probe EXCEPT
                         !.pc = "returned",
                         !.saved = probe.images[SaveNode].images[1],
                         !.artifact = artifact_path(probe.output_dir, probe.iteration),
                         !.result = [exc |-> "none", msg |-> "",
                                     value |-> artifact_path(probe.output_dir, probe.iteration)]]
                ELSE [probe EXCEPT
                         !.pc = "returned",
                         !.result = [exc |-> "Exception",
                                     msg |-> "No image generated by SaveImage node",
                                     value |-> NoArtifactPath]]
    /\ UNCHANGED others

NextJob == JobRecv \/ JobHistory \/ JobSave

SpecJob == InitJob /\ [][NextJob]_vars

\* ---------------------------------------------------------------- text calls on responses with reasoning blocks
\* generate_text_ollama / generate_text_gemini called on a configuration with
\* or without the option to strip reasoning blocks; neither function reads
\* such an option
ThinkAtoms == {"<think>", "</think>", "a", " "}
ThinkTexts == UNION {[1..k -> ThinkAtoms] : k \in 0..MaxLen}
TextCalls ==
    { [fn |-> "generate_text", provider |-> p, strip_think |-> b, text |-> t,
       result |-> Pending] :
        p \in {"ollama", "gemini"}, b \in BOOLEAN, t \in ThinkTexts }

InitText ==
    InitCommon /\ binding = "repo" /\ config_yaml.text_provider = "ollama" /\ probe \in TextCalls

CallGenerateText ==
    /\ probe.fn = "generate_text"
    /\ probe.result = Pending
    /\ probe' = [probe EXCEPT !.result =
                    Returned(IF probe.provider = "ollama"
                             THEN generate_text_ollama(GoalPrompt(<<"castle">>), PyNone,
                                                       [ok |-> TRUE, text |-> probe.text])
                             ELSE generate_text_gemini(GoalPrompt(<<"castle">>), PyNone,
                                                       [ok |-> TRUE, text |-> probe.text]))]
    /\ UNCHANGED others

SpecText == InitText /\ [][CallGenerateText]_vars

\* ---------------------------------------------------------------- the synthesis of the third iteration
\* synthesize_learning(prev_analyses, curr_analysis, prev_prompt, curr_prompt)
\* on the critiques of up to two earlier iterations and the current one
SynthCritiques ==
    { PyStr(<<"needs", " ", "sky">>), PyStr(<<"better", " ", "sky">>),
      PyStr(<<"NEEDS", " ", "better">>), PyStr(<<"sky">>) }
SynthHistories == UNION {[1..k -> SynthCritiques] : k \in 0..2}
SynthCalls ==
    { [fn |-> "synthesize_learning", prev_analyses |-> h, curr_analysis |-> a,
       prev_prompt |-> PyStr(<<"a", " ", "castle">>), curr_prompt |-> c,
       result |-> Pending] :
        h \in SynthHistories, a \in SynthCritiques, c \in EvalPrompts }

InitSynth ==
    InitCommon /\ binding = "repo" /\ config_yaml.text_provider = "ollama" /\ probe \in SynthCalls

CallSynthesizeLearning ==
    /\ probe.fn = "synthesize_learning"
    /\ probe.result = Pending
    /\ probe' = [probe EXCEPT !.result =
                    synthesize_learning(probe.prev_analyses, probe.curr_analysis,
                                        probe.prev_prompt, probe.curr_prompt)]
    /\ UNCHANGED others

SpecSynth == InitSynth /\ [][CallSynthesizeLearning]_vars

\* ---------------------------------------------------------------- claims
RunIterationsCalled(w) ==
    /\ worker[w].pc \notin {"none", "spawned"}
    /\ worker[w].exc # "FileNotFoundError"

GenerateCalls(n) == {i \in DOMAIN trace : trace[i].op = "generate_image" /\ trace[i].n = n}

\* C1: whatever the interleaving of start_run calls on one run, at most one
\* background worker ever executes run_iterations and iteration 1's artifact
\* is generated at most once.
C1_AtMostOneWorkerRuns ==
    /\ Cardinality({w \in Workers : RunIterationsCalled(w)}) <= 1
    /\ Cardinality(GenerateCalls(1)) <= 1

\* C2: when canceled.txt is present as the loop is about to start the next
\* iteration, the worker's next step does not start that iteration.
C2_CancelStopsNextIteration ==
    [][\A w \in Workers :
          (worker[w].pc = "loop" /\ canceled_txt) => worker'[w].pc # "generate"]_vars

Written == {n \in RecordIndices : records[n] # NoFile}
HighestRecord == CHOOSE n \in Written : \A m \in Written : m <= n
\* what the run directory says: the newest record carries a stop decision
PersistedStop == Written # {} /\ ~records[HighestRecord].should_continue

\* C3: a run that left the loop because the budget was used up and a run that
\* left it because evaluate_quality said stop differ in the persisted state:
\* the newest iteration record carries should_continue = false exactly for the
\* latter.
C3_ExhaustedDiffersFromConverged ==
    \A w \in Workers :
        /\ worker[w].exit = "budget" => ~PersistedStop
        /\ worker[w].exit = "break" => PersistedStop

C3_Witness ==
    /\ worker[1].exit = "budget"
    /\ worker[1].iteration >= 4
    /\ records[worker[1].iteration] # NoFile

\* C4: iteration_<n>.json exists only if the record of iteration n-1
\* (iteration_0.json for n = 1) exists and is fully written.
C4_RecordsGapFreeFromZero ==
    \A n \in Iterations :
        records[n] # NoFile =>
            /\ records[n - 1] # NoFile
            /\ n >= 2 => records[n - 1].prompt_after # Absent

NeedsAdjustment == <<"needs", " ", "adjustment", ":", " ", "sky", " ", "color">>
PerfectlyMatches == <<"perfectly", " ", "match", "es", " ", "the", " ", "goal">>

\* the end-to-end scenario: budget 3, critiques "needs adjustment: sky color"
\* in iterations 1 and 2 and "perfectly matches the goal" in iteration 3, the
\* run over
C5_Scenario ==
    /\ worker[1].pc = "done"
    /\ worker[1].max_iters = 3
    /\ {1, 2, 3} \subseteq Written
    /\ records[1].analysis = PyStr(NeedsAdjustment)
    /\ records[2].analysis = PyStr(NeedsAdjustment)
    /\ records[3].analysis = PyStr(PerfectlyMatches)

GenerateOrder ==
    LET idx == {j \in DOMAIN trace : trace[j].op = "generate_image"}
        nth(k) == CHOOSE j \in idx : Cardinality({i \in idx : i <= j}) = k
    IN [k \in 1..Cardinality(idx) |-> trace[nth(k)].n]
RefineCalls(n) == {i \in DOMAIN trace : trace[i].op = "refine_prompt" /\ trace[i].n = n}

LastEventIs(op, w) ==
    trace # <<>> /\ trace[Len(trace)].op = op /\ trace[Len(trace)].w = w

\* iteration_<n>.json holds the prompt, the artifact path and the critique of
\* worker w's current iteration, and no next prompt
PartialRecord(w) ==
    LET n == worker[w].iteration
    IN /\ records[n] # NoFile
       /\ records[n].iteration = n
       /\ records[n].prompt_before = worker[w].log_data.prompt_before
       /\ records[n].prompt_before.kind = "str"
       /\ records[n].image_path = n
       /\ records[n].analysis = worker[w].analysis
       /\ records[n].prompt_after = Absent

\* C6: while the refinement call of iteration n is pending, and after it
\* raised, iteration_<n>.json exists with the prompt, the artifact path and
\* the critique; only the next prompt is missing.
C6_RecordBeforeRefine ==
    \A w \in Workers :
        (\/ worker[w].pc = "refine"
         \/ worker[w].pc = "failed" /\ LastEventIs("refine_prompt", w))
        => PartialRecord(w)

C6_Witness == worker[1].pc = "failed" /\ LastEventIs("refine_prompt", 1)

\* C7: generate_image of iteration n >= 2 is about to start only when
\* iteration_<n-1>.json holds the refined prompt it will use; for n = 1 only
\* when goal_analysis.json is written.
C7_GenerateAfterPromptRecorded ==
    \A w \in Workers :
        worker[w].pc = "generate" =>
            IF worker[w].iteration = 1
            THEN goal_analysis # NoFile
                 /\ PyStr(goal_analysis.initial_prompt) = worker[w].current_prompt
            ELSE /\ records[worker[w].iteration - 1] # NoFile
                 /\ records[worker[w].iteration - 1].prompt_after = worker[w].current_prompt

C7_Witness == worker[1].pc = "generate" /\ worker[1].iteration = 2

FailedTextCall(w) ==
    /\ worker[w].response.kind = "dict"
    /\ HasErrorMarker(worker[w].response.response)

\* C8: a text call that met a transport failure returned an exchange with an
\* error marker and the instructions of the request, and the orchestrator's
\* extraction of the instruction from it does not raise.
C8_DegradedExchangeIsProcessed ==
    \A w \in Workers :
        FailedTextCall(w) =>
            /\ worker[w].response.user_prompt = GoalPrompt(worker[w].goal)
            /\ worker[w].response.system_prompt = <<>>
            /\ ~(worker[w].pc = "failed" /\ worker[w].exc = "AttributeError")

\* C9: every vision call with provider ollama or gemini returns an exchange
\* and raises nothing; when the call failed, the exchange records the system
\* and user instructions the call sends on success.
C9_VisionExchangeWellFormed ==
    (probe.fn = "analyze_image" /\ probe.result # Pending
     /\ probe.provider \in {"ollama", "gemini"}) =>
        /\ probe.result.exc = "none"
        /\ probe.result.value.kind = "dict"
        /\ (~probe.out.ok \/ ~probe.out.readable) =>
              /\ probe.result.value.system_prompt = VisionSystem(probe.stage)
              /\ probe.result.value.user_prompt =
                    VisionPrompt(probe.stage, probe.current_goal, probe.image_description)

\* C10: evaluate_quality with iteration = 1 returns should_continue = true
\* and raises nothing, whatever the critique, the prompts and the history.
C10_FirstIterationContinues ==
    (probe.fn = "evaluate_quality" /\ probe.result # Pending /\ probe.iteration = 1) =>
        /\ probe.result.exc = "none"
        /\ probe.result.should_continue

C10_Witness ==
    /\ probe.fn = "evaluate_quality"
    /\ probe.result # Pending
    /\ probe.iteration = 1
    /\ probe.analysis = PyStr(<<>>)
    /\ probe.previous_analyses # <<>>

EvaluateQualityReturned == probe.fn = "evaluate_quality" /\ probe.result # Pending
HasSuccessPhrase(t) == \E p \in success_phrases : Contains(Lower(t), p)
HasImprovementPhrase(t) == \E p \in improvement_phrases : Contains(Lower(t), p)

\* C11: for every iteration >= 4 and every critique text, evaluate_quality
\* returns should_continue = true exactly when the lower-cased critique holds
\* no success phrase and at least one improvement phrase; a success phrase
\* stops even next to an improvement phrase.
C11_ComprehensiveEvaluation ==
    (EvaluateQualityReturned /\ probe.iteration >= 4 /\ probe.analysis.kind = "str") =>
        /\ probe.result.exc = "none"
        /\ probe.result.should_continue <=>
              (~HasSuccessPhrase(probe.analysis.val) /\ HasImprovementPhrase(probe.analysis.val))

C11_Witness ==
    /\ EvaluateQualityReturned
    /\ probe.iteration = 5
    /\ probe.analysis =
          PyStr(<<"Perfectly", " ", "match", "es", " ", "needs", " ", "adjustment">>)
    /\ ~probe.result.should_continue

\* C12: evaluate_quality with iteration 2 or 3 returns should_continue = true
\* with a reason and raises nothing, for every critique text, every pair of
\* prompts (the previous one absent or not) and every list of prior critique
\* texts, the empty list included.
C12_WarmUpNeverFails ==
    (EvaluateQualityReturned /\ probe.iteration \in {2, 3} /\ probe.analysis.kind = "str") =>
        /\ probe.result.exc = "none"
        /\ probe.result.should_continue
        /\ probe.result.reason # ""

\* C13: the loop is left by an evaluator decision only in iteration 4 or
\* later; a finished run with fewer than 4 iterations ended on its budget.
C13_NoStopBeforeFourth ==
    \A w \in Workers :
        /\ worker[w].exit = "break" => worker[w].iteration >= 4
        /\ (worker[w].pc = "done" /\ worker[w].iteration < 4) => worker[w].exit = "budget"
        /\ \A n \in Written : n < 4 => records[n].should_continue

C13_Witness ==
    /\ worker[1].exit = "break"
    /\ worker[1].iteration = 4
    /\ records[3] # NoFile

IsInstructionSlot(node) ==
    node.class_type = "CLIPTextEncode" /\ node.inputs.text = "PROMPT_PLACEHOLDER"
InstructionSlots(t) == {i \in DOMAIN t : IsInstructionSlot(t[i])}
OutputSlots(t) == {i \in DOMAIN t : t[i].class_type = "SaveImage"}
VariationSlots(t) ==
    {i \in DOMAIN t : \/ t[i].class_type = "RandomNoise"
                      \/ Contains(Lower(t[i].title), <<"random">>)
                      \/ t[i].inputs.noise_seed # NoSeed}
GenerateImageCalled == probe.fn = "generate_image"

\* C14: on a template without a placeholder CLIPTextEncode node or without a
\* SaveImage node, generate_image never opens a connection, submits no job and
\* writes no artifact, and what it raises is a ValueError naming the missing
\* slot.
C14_MalformedTemplateFailsFirst ==
    (GenerateImageCalled
     /\ (InstructionSlots(probe.template) = {} \/ OutputSlots(probe.template) = {})) =>
        /\ ~probe.opened
        /\ probe.submitted = NoGraph
        /\ probe.artifact = NoArtifact
        /\ probe.pc # "resolve" =>
              /\ probe.pc = "returned"
              /\ probe.result.exc = "ValueError"
              /\ probe.result.msg =
                    IF InstructionSlots(probe.template) = {}
                    THEN "No CLIPTextEncode node with PROMPT_PLACEHOLDER found"
                    ELSE "No SaveImage node found in workflow"

C14_Witness ==
    /\ GenerateImageCalled
    /\ InstructionSlots(probe.template) # {}
    /\ VariationSlots(probe.template) # {}
    /\ OutputSlots(probe.template) = {}
    /\ probe.pc = "returned"
    /\ probe.result.msg = "No SaveImage node found in workflow"

\* C15: on a template with an instruction slot and an output slot and no
\* variation slot, generate_image does not fail on the template: it goes on
\* to the backend with the prompt and the filename prefix set.
C15_SeedSlotOptional ==
    (GenerateImageCalled /\ probe.pc # "resolve"
     /\ InstructionSlots(probe.template) # {} /\ OutputSlots(probe.template) # {}
     /\ VariationSlots(probe.template) = {}) =>
        /\ probe.result.exc # "ValueError"
        /\ probe.workflow # NoGraph

\* C16: the graph handed to the backend differs from the template only in
\* the text input of one placeholder node (now the prompt), the
\* filename_prefix input of one SaveImage node (now iteration_<n>) and the
\* noise_seed input of one variation node; with exactly one placeholder node
\* among the CLIPTextEncode nodes, that node is the one written.
C16_MutationFrame ==
    (GenerateImageCalled /\ probe.workflow # NoGraph) =>
        LET t == probe.template
            g == probe.workflow
            textChanged == {i \in DOMAIN t : g[i].inputs.text # t[i].inputs.text}
            prefixChanged ==
                {i \in DOMAIN t : g[i].inputs.filename_prefix # t[i].inputs.filename_prefix}
            seedChanged == {i \in DOMAIN t : g[i].inputs.noise_seed # t[i].inputs.noise_seed}
        IN /\ DOMAIN g = DOMAIN t
           /\ \A i \in DOMAIN t :
                 /\ g[i].class_type = t[i].class_type
                 /\ g[i].title = t[i].title
                 /\ g[i].inputs.seed = t[i].inputs.seed
           /\ textChanged \subseteq InstructionSlots(t) /\ Cardinality(textChanged) = 1
           /\ \A i \in textChanged : g[i].inputs.text = probe.prompt_text
           /\ Cardinality(InstructionSlots(t)) = 1 => textChanged = InstructionSlots(t)
           /\ prefixChanged \subseteq OutputSlots(t) /\ Cardinality(prefixChanged) = 1
           /\ \A i \in prefixChanged :
                 g[i].inputs.filename_prefix = FilenamePrefix(probe.iteration)
           /\ seedChanged \subseteq VariationSlots(t) /\ Cardinality(seedChanged) <= 1
           /\ \A i \in seedChanged : g[i].inputs.noise_seed \in Seeds
           /\ probe.submitted \in {NoGraph, g}

C16_Witness ==
    /\ GenerateImageCalled
    /\ probe.submitted # NoGraph
    /\ Cardinality(InstructionSlots(probe.template)) = 1
    /\ \E i, j \in DOMAIN probe.template :
          /\ i < j
          /\ probe.template[i].class_type = "CLIPTextEncode"
          /\ ~IsInstructionSlot(probe.template[i])
          /\ IsInstructionSlot(probe.template[j])
          /\ probe.submitted[j].inputs.text = probe.prompt_text
          /\ probe.submitted[i].inputs.text = "blurry"

\* the files of the run directory other than the cancellation marker
RunFiles == <<run_dir, config_dump, started_txt, goal_analysis, records, generations>>

\* C17: after a worker has aborted on an error no record or artifact is
\* written or changed, and the step that aborts it changes what a status
\* query returns, so that the abort is reported.
C17_FatalAbortIsReported ==
    [][\A w \in Workers :
          /\ worker[w].pc = "failed" => (records' = records /\ generations' = generations)
          /\ (worker[w].pc # "failed" /\ worker'[w].pc = "failed")
                => results_status' # results_status]_vars

AlreadyStarted == [op |-> "start_run", code |-> 200, message |-> "Run already started"]
RunNotFound(op) == [op |-> op, code |-> 404, error |-> "Run not found"]

\* C18: a start_run call that finds started.txt spawns no worker, writes no
\* file and answers 200 "Run already started"; one that finds no run
\* directory spawns no worker, writes no file and answers 404.
C18_StartRunIdempotent ==
    [][StartRun =>
          /\ started_txt /\ run_dir =>
                (reply' = AlreadyStarted /\ UNCHANGED <<worker, RunFiles, canceled_txt>>)
          /\ ~run_dir =>
                (reply' = RunNotFound("start_run") /\ UNCHANGED <<worker, RunFiles, canceled_txt>>)]_vars

C18_Witness ==
    /\ reply = AlreadyStarted
    /\ started_txt
    /\ \E w \in Workers : worker[w].pc = "none"

\* C19: a cancel_run call on an existing run creates canceled.txt and changes
\* no other file and no worker, whatever call the worker has in flight; on a
\* missing run it changes nothing and answers 404.
C19_CancelOnlyWritesMarker ==
    [][CancelRun =>
          /\ UNCHANGED <<RunFiles, worker>>
          /\ run_dir => (canceled_txt' /\ reply'.code = 200)
          /\ ~run_dir => (UNCHANGED canceled_txt /\ reply' = RunNotFound("cancel_run"))]_vars

C19_Witness ==
    /\ canceled_txt
    /\ reply.op = "cancel_run"
    /\ worker[1].pc = "analyze"
    /\ worker[1].iteration = 1
    /\ generations = {1}

IsPrefix(a, b) == Len(a) <= Len(b) /\ SubSeq(b, 1, Len(a)) = a

\* C20: two runs created by create_run and started by start_run never write
\* the same file: every artifact and record a run's worker writes lies inside
\* that run's directory, and no path is written by both runs.
C20_RunsWriteDisjointFiles ==
    probe.fn = "runs" =>
        /\ \A f \in probe.written : IsPrefix(run_path(f.run), f.path.dir)
        /\ \A f, g \in probe.written : f.path = g.path => f.run = g.run

GatewayReturned == probe.fn = "gateway" /\ probe.pc = "returned"

\* C21: with a provider identifier other than ollama and gemini, each of the
\* three dispatches raises ValueError, and no request, unload or pause is
\* ever made for the call.
C21_UnknownProviderIsFatal ==
    (probe.fn = "gateway" /\ probe.provider \notin {"ollama", "gemini"}) =>
        /\ probe.log = <<>>
        /\ probe.pc \in {"dispatch", "returned"}
        /\ probe.pc = "returned" => probe.result = Raised("ValueError")

C21_Witness ==
    /\ GatewayReturned
    /\ probe.entry = "understand_goal"
    /\ probe.provider = "other"
    /\ probe.result.exc = "ValueError"

\* C22: every call that entered an ollama or gemini wrapper has the pause as
\* its last effect when it returns or raises; in an ollama wrapper the
\* unload signal comes right before the pause, and a failed unload is not
\* what the call raises.
C22_PauseAfterEveryCall ==
    (GatewayReturned /\ probe.backend \in {"ollama", "gemini"}) =>
        /\ probe.log # <<>>
        /\ probe.log[Len(probe.log)] = "sleep"
        /\ probe.backend = "ollama" =>
              (Len(probe.log) >= 2 /\ probe.log[Len(probe.log) - 1] = "unload")
        /\ ~probe.unload_ok => probe.result.exc = "none"

\* the instruction a text response stands for: the trimmed text between the
\* markers, the whole trimmed response without them
InstructionOf(text) ==
    IF extract_prompt_tags(text).kind = "str" THEN extract_prompt_tags(text).val
    ELSE Strip(text)

\* C23: the initial instruction the orchestrator takes from the response of
\* the goal call is the trimmed text between <prompt> and </prompt> when the
\* response has the pair, and the whole trimmed response when it has not;
\* taking it raises nothing.
C23_InstructionFromMarkers ==
    \A w \in Workers :
        /\ (worker[w].pc = "save_goal" /\ worker[w].response.kind = "str") =>
              worker[w].current_prompt = PyStr(InstructionOf(worker[w].response.val))
        /\ (worker[w].pc = "failed" /\ worker[w].response.kind = "str") =>
              worker[w].exc \notin {"AttributeError", "IndexError"}

CreateRunInputs == (Goals \cup {<<>>, <<" ">>}) \X MaxOverrides \X OutputDirs

\* C24: a create_run call with an empty or blank goal, or with a
\* max_iterations field that is no integer, answers 400 and creates neither
\* the run directory nor config_dump.json; with a valid form it answers 200
\* and writes config_dump.json with the trimmed goal and the configuration
\* with the overrides applied; no worker is started either way.
C24_CreateRunValidatesFirst ==
    [][\A in \in CreateRunInputs :
          (~run_dir /\ create_run(in[1], in[2], in[3])) =>
              /\ UNCHANGED <<worker, started_txt, records, generations>>
              /\ (Strip(in[1]) = <<>> \/ (in[2].given /\ ~in[2].valid)) =>
                    (reply'.code = 400 /\ ~run_dir' /\ config_dump' = NoFile)
              /\ (Strip(in[1]) # <<>> /\ (in[2].given => in[2].valid)) =>
                    /\ reply'.code = 200
                    /\ run_dir'
                    /\ config_dump'.goal = Strip(in[1])
                    /\ config_dump'.max_iterations =
                          IF in[2].given THEN in[2].value ELSE config_yaml.max_iterations
                    /\ config_dump'.output_dir = in[3]]_vars

C24_Witness ==
    /\ reply = [op |-> "create_run", code |-> 400, error |-> "Invalid max_iterations value"]
    /\ ~run_dir
    /\ config_dump = NoFile

AllGenerateCalls == {i \in DOMAIN trace : trace[i].op = "generate_image"}

\* the iterations started so far are 1, 2, ..., k in this order, k within the
\* budget, and the records are among them
WithinBudget ==
    \A w \in Workers :
        worker[w].pc \notin {"none", "spawned"} =>
            /\ Cardinality(AllGenerateCalls) <= worker[w].max_iters
            /\ GenerateOrder = [k \in 1..Cardinality(AllGenerateCalls) |-> k]
            /\ Written \subseteq 1..Cardinality(AllGenerateCalls)
            /\ worker[w].iteration <= worker[w].max_iters

\* C25: when every call returns, a started run ends (done or aborted), and at
\* every moment the generate_image calls made are those of iterations
\* 1, 2, ..., k in order with k at most max_iterations, and every record
\* belongs to one of them.
C25_TerminatesWithinBudget ==
    /\ []WithinBudget
    /\ (worker[1].pc # "none") ~> (worker[1].pc \in {"done", "failed"})

C25_Witness ==
    /\ worker[1].pc = "done"
    /\ worker[1].max_iters = 2
    /\ Cardinality(AllGenerateCalls) = 2
    /\ Written = {1, 2}

IsCompletion(frame) ==
    /\ ~frame.binary /\ frame.type = "executing"
    /\ frame.node = "null" /\ frame.prompt_id = OwnJob
GetImagesCalled == probe.fn = "get_images"

\* C26: get_images has left its receive loop exactly when the last frame it
\* received is the first text 'executing' event with node null and its own
\* job id; it fetches the history only then; while no such frame has arrived
\* it is still receiving.
C26_WaitEndsOnOwnCompletion ==
    GetImagesCalled =>
        LET seen == {k \in 1..probe.pos : IsCompletion(probe.stream[k])}
        IN /\ probe.pc # "recv" <=> seen # {}
           /\ seen # {} => seen = {probe.pos}
           /\ probe.fetched => seen # {}

C26_Witness ==
    /\ GetImagesCalled
    /\ probe.fetched
    /\ probe.pos = 3
    /\ probe.stream[1].binary
    /\ probe.stream[2].prompt_id = "job-2"

\* artifacts the SaveImage node produced according to the history
SaveNodeArtifacts == probe.manifest[SaveNode].images

\* C27: once the job is complete, generate_image raises "No image generated
\* by SaveImage node" and writes no file when the history holds no image of
\* the SaveImage node, whatever other nodes produced; otherwise it saves the
\* first image of the SaveImage node as <output_dir>/iteration_<n>.png and
\* returns that path.
C27_FirstArtifactOfSaveNode ==
    (GetImagesCalled /\ probe.pc = "returned") =>
        IF SaveNodeArtifacts = <<>>
        THEN /\ probe.result.exc = "Exception"
             /\ probe.result.msg = "No image generated by SaveImage node"
             /\ probe.artifact = NoArtifactPath
             /\ probe.saved = "<none>"
        ELSE /\ probe.result.exc = "none"
             /\ probe.result.value = [dir |-> probe.output_dir, n |-> probe.iteration, ext |-> "png"]
             /\ probe.artifact = probe.result.value
             /\ probe.saved = SaveNodeArtifacts[1]

C27_Witness ==
    /\ GetImagesCalled
    /\ probe.pc = "returned"
    /\ probe.manifest[OtherNode].images = <<"first", "second">>
    /\ probe.manifest[SaveNode] = NoImagesKey
    /\ probe.result.exc = "Exception"

IsRandomNoise(node) == node.class_type = "RandomNoise"
HasTitleHint(node) == \E k \in DOMAIN node.title : LowerAtom(node.title[k]) = "random"
HasSeedField(node) == node.inputs.noise_seed # NoSeed

\* the variation slot of a template follows the priority class, title, field
SeedPriority(t) ==
    LET r == find_seed_node(t)
        some(P(_)) == \E i \in DOMAIN t : P(t[i])
    IN r.error = "" =>
          /\ r.node_id \in DOMAIN t
          /\ some(IsRandomNoise) => IsRandomNoise(t[r.node_id])
          /\ (~some(IsRandomNoise) /\ some(HasTitleHint)) => HasTitleHint(t[r.node_id])
          /\ (~some(IsRandomNoise) /\ ~some(HasTitleHint)) => HasSeedField(t[r.node_id])

\* the seed input of the resolved variation slot holds a drawn seed
SeedDrawn(t, g) ==
    LET n == g[find_seed_node(t).node_id]
    IN IF n.inputs.noise_seed # NoSeed THEN n.inputs.noise_seed \in Seeds
       ELSE n.inputs.seed # NoSeed /\ n.inputs.seed \in Seeds

\* C28: the variation slot is the RandomNoise node if there is one, else a
\* node with the title hint if there is one, else a node with a seed input
\* field, wherever the nodes stand in the template; and in every graph built
\* from a template whose variation slot resolved, the slot's seed input holds
\* a drawn integer of 1..10^9.
C28_SeedSlotPriorityAndDraw ==
    GenerateImageCalled =>
        /\ SeedPriority(probe.template)
        /\ probe.workflow # NoGraph => SeedDrawn(probe.template, probe.workflow)

\* the priority part of C28 alone
C28_PriorityOnly == GenerateImageCalled => SeedPriority(probe.template)

VisionCallsOf(n) == {i \in DOMAIN trace : trace[i].op = "analyze_image" /\ trace[i].n = n}

\* C29: when evaluate_quality is called in iteration n, the iteration has
\* made, in this order, its generate_image call, a vision call of stage
\* "describe" and a vision call of stage "analyze", and no refinement call
\* yet; the refinement call comes only after evaluate_quality returned.
C29_CallOrderInIteration ==
    \A w \in Workers :
        LET n == worker[w].iteration
        IN /\ worker[w].pc = "evaluate" =>
                /\ \E g \in GenerateCalls(n) : \E d, a \in VisionCallsOf(n) : g < d /\ d < a
                /\ Cardinality(VisionCallsOf(n)) = 2
                /\ worker[w].stage = "analyze"
           /\ worker[w].pc \in {"generate", "analyze", "evaluate", "log"} => RefineCalls(n) = {}

\* C30: when iteration 1 starts, understand_goal has made exactly two text
\* calls, the goal analysis and the draft of the initial instruction.
C30_TwoTextCallsBeforeIterationOne ==
    \A w \in Workers :
        (worker[w].pc \notin {"failed", "none", "spawned"} /\ worker[w].iteration >= 1) =>
            worker[w].goal_text_calls = 2

WorkerWroteGoalAnalysis == "analysis" \in DOMAIN goal_analysis

\* C31 as stated: whenever goal_analysis.json or an iteration record of a run
\* exists, started.txt exists.
C31_RecordsImplyStarted ==
    (goal_analysis # NoFile \/ Written # {}) => started_txt

\* C31: started.txt is written before a worker makes any text call, generates
\* any artifact or writes any file of the run; whenever the goal analysis of
\* run_iterations, an iteration record or an artifact exists, started.txt
\* exists.
C31_StartedMarkerFirst ==
    /\ (WorkerWroteGoalAnalysis \/ Written # {} \/ generations # {} \/ trace # <<>>) => started_txt
    /\ \A w \in Workers :
          (worker[w].pc \notin {"none", "spawned"} /\ worker[w].exc # "FileNotFoundError")
              => started_txt

C31_Witness ==
    /\ started_txt
    /\ WorkerWroteGoalAnalysis
    /\ Written = {1, 2}
    /\ worker[1].pc = "done"

HasThinkBlock(t) ==
    \E i, j \in DOMAIN t : i < j /\ t[i] = "<think>" /\ t[j] = "</think>"

\* C32: a text call made with the option to strip reasoning enabled returns a
\* response without any <think>...</think> block; with the option disabled it
\* returns the backend's text unchanged.
C32_ReasoningStripped ==
    (probe.fn = "generate_text" /\ probe.result # Pending) =>
        IF probe.strip_think
        THEN ~HasThinkBlock(probe.result.value.response)
        ELSE probe.result.value.response = probe.text

\* number of the prior critiques of the call that contain the phrase
PriorCount(phrase) ==
    Cardinality({i \in 1..Len(probe.prev_analyses) :
                    Contains(Lower(probe.prev_analyses[i].val), phrase)})

\* C33: with the critiques of iterations 1 and 2 as prior critiques,
\* synthesize_learning reports a keyword as a persistent issue or as a
\* consistent improvement only if both prior critiques contain it, whatever
\* the current critique is.
C33_RecurrenceInPriorCritiques ==
    (probe.fn = "synthesize_learning" /\ probe.result # Pending
     /\ Len(probe.prev_analyses) = 2) =>
        /\ \A p \in probe.result.consistent_issues : PriorCount(p) >= 2
        /\ \A p \in probe.result.recurring_improvements : PriorCount(<<p>>) >= 2

\* C34: within an execution of run_iterations, a step changes an existing
\* iteration_<n>.json only once, when the worker is past the refinement of
\* iteration n, and then only by adding prompt_after: every field of the
\* first write keeps its value, and no record of an earlier iteration is
\* written again.
C34_RecordsImmutable ==
    [][\A n \in RecordIndices :
          records[n] # NoFile =>
              \/ records'[n] = records[n]
              \/ /\ worker[1].pc = "update" /\ worker[1].iteration = n
                 /\ records[n].prompt_after = Absent
                 /\ records'[n].prompt_after # Absent
                 /\ records'[n] = [records[n] EXCEPT !.prompt_after = records'[n].prompt_after]]_vars

C34_Witness ==
    /\ records[1] # NoFile /\ records[1].prompt_after # Absent
    /\ records[2] # NoFile /\ records[2].prompt_after # Absent
    /\ records[3] # NoFile /\ records[3].prompt_after = Absent

WorkerTerminated == worker[1].pc \in {"done", "failed"}

\* C35: once the worker of the run has terminated (stop decision, budget used
\* up, or an exception), a status query reports done = true.
C35_TerminatedRunIsDone ==
    WorkerTerminated => results_status.done

\* C36: from a state in which a status query reports done = true, no step
\* writes an iteration record or an artifact of the run, whether done comes
\* from the number of artifacts or from canceled.txt.
C36_DoneIsFinal ==
    [][(run_dir /\ results_status.done) =>
          (records' = records /\ generations' = generations)]_vars

\* C37: generate_image queues the job only on an open websocket connection,
\* and every exit of generate_image after the connection was opened (a saved
\* artifact, no artifact, an exception of the queue request) has closed it;
\* the connection is not closed while the job is awaited.
C37_ConnectBeforeSubmitCloseOnExit ==
    GenerateImageCalled =>
        /\ (probe.pc \in {"submit", "save"} \/ probe.submitted # NoGraph) => probe.opened
        /\ probe.pc \in {"submit", "save"} => ~probe.closed
        /\ (probe.pc = "returned" /\ probe.opened) => probe.closed
        /\ probe.closed => probe.opened

C37_Witness ==
    /\ GenerateImageCalled
    /\ probe.pc = "returned"
    /\ probe.result.exc = "URLError"
    /\ probe.opened /\ probe.closed
    /\ probe.submitted = NoGraph

====
